---- MODULE Spec2Model ----
(***************************************************************************)
(* The acquisition-and-translation cycle of the Sumry / Anenji bridges.    *)
(*                                                                         *)
(* The repository holds seven entry points, each a process of its own:     *)
(*   "emu"        dbus-multiplus-emulator/dbus-multiplus-emulator.py       *)
(*   "celmaibun"  dbus-multiplus-emulator/celmaibun.py                     *)
(*   "multiplus"  venus-sumry-dbus/multiplus.py                            *)
(*   "inverter"   venus-sumry-dbus/inverter.py                             *)
(*   "battery"    venus-sumry-dbus/battery_service.py                      *)
(*   "pv"         venus-sumry-dbus/pv_service.py                           *)
(*   "service"    venus-sumry-dbus/service.py (PV + battery, worker loop)  *)
(* The variable prog says which of them the process runs.                  *)
(*                                                                         *)
(* Units.  A register is kept as the raw integer the device returns; a     *)
(* published value that the code scales (raw * 0.1 V, raw * 0.01 Hz) is    *)
(* kept as that raw integer, in tenths or hundredths.  An energy counter   *)
(* is kept in watt-seconds, WsPerKWh of them to the kilowatt-hour, so that *)
(* (p / 1000.0) * (dt / 3600.0) is the exact integer p * dt.  A derived    *)
(* current p / v is kept as the unevaluated ratio <<p, v_raw>>.            *)
(* A published value that may be None is None (<<>>) or Some(v) (<<v>>).   *)
(* A service's paths are the fields of a record: the path /Ac/Out/L1/P is  *)
(* the field Ac_Out_L1_P.  Only the paths a tick assigns are kept; the     *)
(* identity and management paths are set once and never change.            *)
(***************************************************************************)
EXTENDS Integers, Sequences, FiniteSets, TLC

VARIABLES
    prog,              \* the entry point this process runs
    svc,               \* service -> (path -> value): the VeDbusService objects
    idx,               \* service -> _idx / _update_index
    energy,            \* _energy (emulator only), in watt-seconds
    last_energy_save,  \* _last_energy_save
    file,              \* the content of ENERGY_FILE on disk
    now,               \* time(), in seconds
    started,           \* time_driver_started
    outcome,           \* how the latest tick ended: "Idle", "Published", "Failed"
    written,           \* service -> the paths the latest tick assigned
    saved,             \* what the latest tick's _save_energy call did
    writes,            \* the times at which this process wrote the file
    seen,              \* the working mode the latest tick published from
    heard,             \* the serial-number words of the image it published from
    ticks,             \* timer callbacks / loop iterations run so far
    armed,             \* the timer source is installed / the worker loop runs
    pending,           \* service.py: the assignments the worker has yet to make
    boots              \* process starts after the first

vars == <<prog, svc, idx, energy, last_energy_save, file, now, started,
          outcome, written, saved, writes, seen, heard, ticks, armed, pending, boots>>

-----------------------------------------------------------------------------
(* Bounds of the model *)

\* timer callbacks explored per behaviour
MaxTicks == 2
\* process restarts explored per behaviour
MaxBoots == 1
\* time() when the first process starts
StartTime == 100

(* Program constants *)

POLL_SEC == 2
ENERGY_SAVE_SEC == 60
WsPerKWh == 1000 * 3600

None == <<>>
Some(v) == <<v>>
Ratio(p, v) == <<p, v>>

-----------------------------------------------------------------------------
(* The device: a register image, and the reads that raise *)

\* The registers the programs read one by one, and the twelve words of the
\* serial number, read as the blocks 186..191 and 192..197.
Registers ==
    {100, 101, 108, 109, 201, 202, 203, 204, 205, 206, 207, 208, 209, 210, 211,
     212, 213, 214, 215, 216, 217, 219, 220, 223, 224, 226, 227, 229}
\* inv = mk_instrument(), the first statement under the try of every tick,
\* opens the serial device: it is the read number 0 among those that raise.
SerialPort == 0

SerialBase == 186
SerialWords == 12

\* Image(...): the raw value of every register: the working mode, the AC-in
\* voltage and power, the AC-out power and the state of charge as given, the
\* others set by the sample number g, so that two samples differ everywhere.
\* The serial number reads "SN0" or "SN1", padded with NUL.
Image(wm, in_v, in_p, out_p, soc, g) ==
    [a \in Registers \cup (SerialBase .. SerialBase + SerialWords - 1) |->
        CASE a = 201 -> wm
          [] a = 202 -> in_v
          [] a = 203 -> IF in_v > 0 THEN 5000 + g ELSE 0
          [] a = 204 -> in_p
          [] a = 205 -> 2299 + g
          [] a = 206 -> 41 + g
          [] a = 207 -> 4999 + g
          [] a = 208 -> out_p + 20
          [] a = 209 -> 100 * g
          [] a = 210 -> 2300 + g
          [] a = 211 -> 40 + g
          [] a = 212 -> 5000 + g
          [] a = 213 -> out_p
          [] a = 214 -> IF out_p > 0 THEN out_p + 10 * g ELSE 0
          [] a = 215 -> 520 - g
          [] a = 216 -> 100 - 250 * g
          [] a = 217 -> 520 - 1800 * g
          [] a = 219 -> 1200 + g
          [] a = 220 -> 30 + g
          [] a = 223 -> 400 - g
          [] a = 224 -> 300 * g
          [] a = 226 -> 35 + g
          [] a = 227 -> 40 - g
          [] a = 229 -> soc
          [] a = 100 -> 0
          [] a = 101 -> g
          [] a = 108 -> g
          [] a = 109 -> 2 * g
          [] a = SerialBase -> 83 * 256 + 78
          [] a = SerialBase + 1 -> (48 + g) * 256
          [] OTHER -> 0]

\* The register images a tick may read: off-grid under load, grid power
\* reported with no mains, charging from mains under load, mains seen by
\* voltage alone with power flowing back from the load, mains with export.
Images ==
    { Image(3, 0, 0, 1000, 80, 0),
      Image(3, 0, 1000, 0, 50, 1),
      Image(5, 2300, 1000, 1000, 80, 1),
      Image(3, 2300, 1000, -200, 50, 0),
      Image(5, 2300, -500, 0, 80, 0) }

\* r16: the register's value (the read raises when its address is among the
\* failing ones, which the caller decides before it reads).
r16(img, reg) == img[reg]

\* r32: two unsigned reads, (hi << 16) | lo.
r32(img, addr) == r16(img, addr) * 65536 + r16(img, addr + 1)

\* The addresses whose failure makes r32(addr) raise.
R32(addr) == {addr, addr + 1}

\* The words of read_registers(addr, count).
Words(img, addr, count) == [k \in 1 .. count |-> img[addr + k - 1]]

\* The two bytes of each word with the low byte first.
WordBytesLowFirst(words) ==
    [k \in 1 .. 2 * Len(words) |->
        IF k % 2 = 1 THEN words[(k + 1) \div 2] % 256
                     ELSE (words[k \div 2] \div 256) % 256]

\* b += bytes([(w >> 8) & 0xFF, w & 0xFF]) for each word.
WordBytes(words) ==
    [k \in 1 .. 2 * Len(words) |->
        IF k % 2 = 1 THEN (words[(k + 1) \div 2] \div 256) % 256
                     ELSE words[k \div 2] % 256]

\* bytes.rstrip(b"\x00")
RECURSIVE RStripNul(_)
RStripNul(b) ==
    IF Len(b) > 0 /\ b[Len(b)] = 0 THEN RStripNul(SubSeq(b, 1, Len(b) - 1)) ELSE b

\* b[i] is a continuation byte, 0x80..0xBF, or one in lo..hi.
Cont(b, i, lo, hi) == i <= Len(b) /\ b[i] >= lo /\ b[i] <= hi

\* The length of the UTF-8 sequence that starts at b[i], 0 when none does:
\* a lone continuation byte, 0xC0, 0xC1, 0xF5 and up, a lead byte short of
\* its continuation bytes, an overlong form or a surrogate.
Utf8Len(b, i) ==
    LET c == b[i]
    IN  IF c < 128 THEN 1
        ELSE IF c >= 194 /\ c <= 223
        THEN (IF Cont(b, i + 1, 128, 191) THEN 2 ELSE 0)
        ELSE IF c >= 224 /\ c <= 239
        THEN (IF /\ Cont(b, i + 1, IF c = 224 THEN 160 ELSE 128,
                                   IF c = 237 THEN 159 ELSE 191)
                 /\ Cont(b, i + 2, 128, 191)
              THEN 3 ELSE 0)
        ELSE IF c >= 240 /\ c <= 244
        THEN (IF /\ Cont(b, i + 1, IF c = 240 THEN 144 ELSE 128,
                                   IF c = 244 THEN 143 ELSE 191)
                 /\ Cont(b, i + 2, 128, 191)
                 /\ Cont(b, i + 3, 128, 191)
              THEN 4 ELSE 0)
        ELSE 0

\* The code point of the sequence of n bytes at b[i].
Utf8Point(b, i, n) ==
    CASE n = 1 -> b[i]
      [] n = 2 -> (b[i] - 192) * 64 + (b[i + 1] - 128)
      [] n = 3 -> (b[i] - 224) * 4096 + (b[i + 1] - 128) * 64 + (b[i + 2] - 128)
      [] n = 4 -> (b[i] - 240) * 262144 + (b[i + 1] - 128) * 4096
                    + (b[i + 2] - 128) * 64 + (b[i + 3] - 128)

RECURSIVE DecodeFrom(_, _)
\* The decoding of b from its i-th byte on.  A byte that starts no sequence
\* is passed over; the continuation bytes after a lead byte that falls short
\* start no sequence either, so passing over one byte at a time drops what
\* the error handler "ignore" drops.
DecodeFrom(b, i) ==
    IF i > Len(b) THEN <<>>
    ELSE LET n == Utf8Len(b, i)
         IN  IF n = 0 THEN DecodeFrom(b, i + 1)
             ELSE <<Utf8Point(b, i, n)>> \o DecodeFrom(b, i + n)

\* bytes.decode(errors="ignore"): UTF-8, the text as its code points.
DecodeIgnore(b) == DecodeFrom(b, 1)

\* read_ascii(inv, addr, count): the text, as its code points.
read_ascii(img, addr, count) ==
    LET words == IF count > 6
                 THEN Words(img, addr, 6) \o Words(img, addr + 6, count - 6)
                 ELSE Words(img, addr, count)
    IN  DecodeIgnore(RStripNul(WordBytes(words)))

\* The block reads of read_ascii(addr, count): it raises when one fails.
Ascii(addr, count) == IF count > 6 THEN {addr, addr + 6} ELSE {addr}

\* The delays, past the poll interval, after which the timer callback may
\* run: on time, late by a second (the callback before it overran), late by
\* a whole save interval (the main loop was held up).
Delays == {0, 1, ENERGY_SAVE_SEC - POLL_SEC}

\* MODE_MAP
MODE_MAP ==
    [wm \in 0 .. 6 |->
        CASE wm = 0 -> "PowerOn" [] wm = 1 -> "Standby" [] wm = 2 -> "Mains"
          [] wm = 3 -> "OffGrid" [] wm = 4 -> "Bypass" [] wm = 5 -> "Charging"
          [] OTHER -> "Fault"]

\* MODE_MAP.get(wm, default)
ModeGet(wm, default) == IF wm \in DOMAIN MODE_MAP THEN MODE_MAP[wm] ELSE default

Abs(x) == IF x < 0 THEN -x ELSE x

\* Assign without the line that sets /Connected to 1.
AssignKeepConnected(s, w) == [k \in DOMAIN w \ {"Connected"} |-> w[k]] @@ s

\* s with the paths of w assigned: s[path] = value for each.
Assign(s, w) == w @@ s

\* An except branch that logs and assigns nothing.
OnFailureStale(s) == s

\* The except branch of a tick: only /Connected is assigned.
OnFailure(s) == [s EXCEPT !.Connected = 0]

\* _bump without the modulus.
BumpNoWrap(i) == i + 1

\* _bump / the UpdateIndex lines of update().
Bump(i) == (i + 1) % 256

\* A tick that publishes each value as it reads it, so that a read which raises
\* leaves the values before it published.
RunTickPartial(name, failed, w) ==
    /\ svc' = [svc EXCEPT ![name] = IF failed THEN OnFailure(Assign(@, w))
                                               ELSE Assign(@, w)]
    /\ idx' = [idx EXCEPT ![name] = IF failed THEN @ ELSE Bump(@)]
    /\ written' = [written EXCEPT ![name] = IF failed THEN {"Connected"} ELSE DOMAIN w]
    /\ outcome' = IF failed THEN "Failed" ELSE "Published"
    /\ armed' = TRUE

\* A tick whose except branch ends without "return True": the callback
\* returns None and GLib removes the timer source.
RunTickStopsOnFailure(name, failed, w) ==
    /\ svc' = [svc EXCEPT ![name] = IF failed THEN OnFailure(@) ELSE Assign(@, w)]
    /\ idx' = [idx EXCEPT ![name] = IF failed THEN @ ELSE Bump(@)]
    /\ written' = [written EXCEPT ![name] = IF failed THEN {"Connected"} ELSE DOMAIN w]
    /\ outcome' = IF failed THEN "Failed" ELSE "Published"
    /\ armed' = ~failed

\* try: snap = collect_snapshot(); publish(snap) / except: /Connected = 0,
\* on the service name: failed says a read raised, w is what publish assigns.
\* Both paths end in "return True", which keeps the timer source installed.
RunTick(name, failed, w) ==
    /\ svc' = [svc EXCEPT ![name] = IF failed THEN OnFailure(@) ELSE Assign(@, w)]
    /\ idx' = [idx EXCEPT ![name] = IF failed THEN @ ELSE Bump(@)]
    /\ written' = [written EXCEPT ![name] = IF failed THEN {"Connected"} ELSE DOMAIN w]
    /\ outcome' = IF failed THEN "Failed" ELSE "Published"
    /\ armed' = TRUE

-----------------------------------------------------------------------------
(* dbus-multiplus-emulator.py *)

ZeroEnergy ==
    [AcIn1ToInverter_kWh |-> 0, AcIn1ToAcOut_kWh |-> 0, InverterToAcOut_kWh |-> 0]

EnergyKeys == {"AcIn1ToInverter_kWh", "AcIn1ToAcOut_kWh", "InverterToAcOut_kWh"}

\* for k in _energy: the order of the keys.
EnergyOrder == <<"AcIn1ToInverter_kWh", "AcIn1ToAcOut_kWh", "InverterToAcOut_kWh">>

\* ENERGY_FILE on disk is [state, data]: state is "missing" (open raises),
\* "malformed" (json.load raises: empty, truncated, not JSON), "other" (JSON
\* that is no object: a number, a list, a string, null) or "json" (an object);
\* data is the object, key -> <<kind, n>>, where the kinds are "num" (the
\* number n, in watt-seconds), "bool" (true is 1), "str" and "huge" (an
\* integer too large for a float).
NoData == [k \in {} |-> <<"num", 0>>]

\* json.dump(_energy, f): the object written.
json_dump(en) == [k \in EnergyKeys |-> <<"num", en[k]>>]

\* The loop of _load_energy over the keys from the i-th on: a value that is
\* an int or a float (a bool is an int) is taken through float(), which
\* raises on an integer too large; any other is passed over.
RECURSIVE LoadKeys(_, _, _)
LoadKeys(en, data, i) ==
    IF i > Len(EnergyOrder) THEN [energy |-> en, raised |-> FALSE]
    ELSE LET k == EnergyOrder[i]
         IN  IF k \notin DOMAIN data THEN LoadKeys(en, data, i + 1)
             ELSE IF data[k][1] \in {"num", "bool"}
                  THEN LoadKeys([en EXCEPT ![k] = data[k][2]], data, i + 1)
             ELSE IF data[k][1] = "huge" THEN [energy |-> en, raised |-> TRUE]
             ELSE LoadKeys(en, data, i + 1)

\* The try block of _load_energy, starting from the counters en: the counters
\* it leaves and whether it raised.  JSON that is no object raises at
\* "k in data" or at "data[k]".
LoadBody(en, f) ==
    IF f.state = "json" THEN LoadKeys(en, f.data, 1)
    ELSE [energy |-> en, raised |-> TRUE]

\* _load_energy without its except clause.
LoadEnergyNoCatch(en, f) == LoadBody(en, f)

\* _load_energy stopping after the first key it has loaded.
LoadEnergyFirstKey(en, f) ==
    [energy |-> IF f.state = "json" /\ EnergyOrder[1] \in DOMAIN f.data
                     /\ f.data[EnergyOrder[1]][1] \in {"num", "bool"}
                THEN [en EXCEPT ![EnergyOrder[1]] = f.data[EnergyOrder[1]][2]]
                ELSE en,
     raised |-> FALSE]

\* _load_energy on the counters en (main() calls it on the zeros the module
\* starts with): "except Exception" lets nothing out.
load_energy(en, f) == [energy |-> LoadBody(en, f).energy, raised |-> FALSE]

\* _save_energy that never records the time of its write.
SaveEnergyForgetLast(t, en, last, f, io) ==
    IF t - last < ENERGY_SAVE_SEC
    THEN [file |-> f, last |-> last, did |-> "skipped"]
    ELSE IF io = "ok"
         THEN [file |-> [state |-> "json", data |-> json_dump(en)],
               last |-> last, did |-> "written"]
         ELSE [file |-> f, last |-> last, did |-> "failed"]

\* _save_energy that records the time of its attempt before it writes.
SaveEnergyStampFirst(t, en, last, f, io) ==
    IF t - last < ENERGY_SAVE_SEC
    THEN [file |-> f, last |-> last, did |-> "skipped"]
    ELSE CASE io = "ok" ->
                [file |-> [state |-> "json", data |-> json_dump(en)],
                 last |-> t, did |-> "written"]
           [] io = "open_fails" ->
                [file |-> f, last |-> t, did |-> "failed"]
           [] OTHER ->
                [file |-> [state |-> "malformed", data |-> NoData],
                 last |-> t, did |-> "failed"]

\* _save_energy at time t with counters en; io is what the file system does
\* to an attempted write: "ok", "open_fails" or "dump_fails".
save_energy(t, en, last, f, io) ==
    IF t - last < ENERGY_SAVE_SEC
    THEN [file |-> f, last |-> last, did |-> "skipped"]
    ELSE CASE io = "ok" ->
                [file |-> [state |-> "json", data |-> json_dump(en)],
                 last |-> t, did |-> "written"]
           [] io = "open_fails" ->
                [file |-> f, last |-> last, did |-> "failed"]
           [] OTHER ->
                [file |-> [state |-> "malformed", data |-> NoData],
                 last |-> last, did |-> "failed"]

emu_vebus_mode_from_wm(wm) ==
    IF wm = 3 THEN 3
    ELSE IF wm \in {2, 4, 5} THEN 1
    ELSE 4

\* vebus_state_from_wm with Off (0) for a working mode it does not know.
EmuStateUnknownOff(wm) ==
    IF wm = 5 THEN 3
    ELSE IF wm = 3 THEN 9
    ELSE IF wm \in {2, 4} THEN 3
    ELSE IF wm \in {0, 1, 6} THEN 1
    ELSE 0

emu_vebus_state_from_wm(wm) ==
    IF wm = 5 THEN 3
    ELSE IF wm = 3 THEN 9
    ELSE IF wm \in {2, 4} THEN 3
    ELSE 1

\* mains_present, from the working mode and the raw AC-in voltage.
mains_present(wm, in_v) == wm \in {2, 4, 5} \/ in_v > 1500

\* The accumulation without its "> 0" guards.
AccumulateUnguarded(en, mains, in_p, out_p) ==
    LET dt == POLL_SEC
        e1 == IF mains
              THEN [en EXCEPT !.AcIn1ToInverter_kWh = @ + in_p * dt,
                              !.AcIn1ToAcOut_kWh = @ + in_p * dt]
              ELSE en
    IN  [e1 EXCEPT !.InverterToAcOut_kWh = @ + out_p * dt]

\* The accumulation counting the magnitude of the power, whatever its sign.
AccumulateAbs(en, mains, in_p, out_p) ==
    LET dt == POLL_SEC
        e1 == IF mains /\ in_p # 0
              THEN [en EXCEPT !.AcIn1ToInverter_kWh = @ + Abs(in_p) * dt,
                              !.AcIn1ToAcOut_kWh = @ + Abs(in_p) * dt]
              ELSE en
    IN  IF out_p # 0
        THEN [e1 EXCEPT !.InverterToAcOut_kWh = @ + Abs(out_p) * dt]
        ELSE e1

\* The accumulation with the poll interval left out: one second per tick.
AccumulateNoDt(en, mains, in_p, out_p) ==
    LET e1 == IF mains /\ in_p > 0
              THEN [en EXCEPT !.AcIn1ToInverter_kWh = @ + in_p,
                              !.AcIn1ToAcOut_kWh = @ + in_p]
              ELSE en
    IN  IF out_p > 0
        THEN [e1 EXCEPT !.InverterToAcOut_kWh = @ + out_p]
        ELSE e1

\* The accumulation that takes the grid energy to AcIn1ToAcOut only while the
\* output draws power.
AccumulateGridSplit(en, mains, in_p, out_p) ==
    LET dt == POLL_SEC
        e1 == IF mains /\ in_p > 0
              THEN [en EXCEPT !.AcIn1ToInverter_kWh = @ + in_p * dt,
                              !.AcIn1ToAcOut_kWh =
                                  IF out_p > 0 THEN @ + in_p * dt ELSE @]
              ELSE en
    IN  IF out_p > 0
        THEN [e1 EXCEPT !.InverterToAcOut_kWh = @ + out_p * dt]
        ELSE e1

\* The energy accumulation of update(): dt is POLL_SEC.
Accumulate(en, mains, in_p, out_p) ==
    LET dt == POLL_SEC
        e1 == IF mains /\ in_p > 0
              THEN [en EXCEPT !.AcIn1ToInverter_kWh = @ + in_p * dt,
                              !.AcIn1ToAcOut_kWh = @ + in_p * dt]
              ELSE en
    IN  IF out_p > 0
        THEN [e1 EXCEPT !.InverterToAcOut_kWh = @ + out_p * dt]
        ELSE e1

EmuService == "vebus"

\* The paths _add_paths creates and update() assigns, with their first values.
EmuPaths(en) ==
    [Connected |-> 0, Mode |-> 4, State |-> 1, VebusError |-> 0,
     VebusChargeState |-> 0, UpdateIndex |-> 0,
     Ac_ActiveIn_Connected |-> 0, Ac_ActiveIn_ActiveInput |-> 240,
     Ac_ActiveIn_Available |-> 1, Ac_ActiveIn_Source |-> 1,
     Ac_ActiveIn_V |-> None, Ac_ActiveIn_Current |-> None,
     Ac_ActiveIn_Power |-> None, Ac_ActiveIn_Frequency |-> None,
     Ac_ActiveIn_L1_V |-> None, Ac_ActiveIn_L1_I |-> None,
     Ac_ActiveIn_L1_F |-> None, Ac_ActiveIn_L1_P |-> None,
     Ac_ActiveIn_L1_S |-> None, Ac_ActiveIn_P |-> None, Ac_ActiveIn_S |-> None,
     Ac_Out_L1_V |-> None, Ac_Out_L1_I |-> None, Ac_Out_L1_F |-> None,
     Ac_Out_L1_P |-> None, Ac_Out_L1_S |-> None,
     Ac_Out_P |-> None, Ac_Out_S |-> None,
     Dc_0_Voltage |-> None, Dc_0_Current |-> None, Dc_0_Power |-> None,
     Soc |-> None,
     Energy_AcIn1ToInverter |-> en.AcIn1ToInverter_kWh,
     Energy_AcIn1ToAcOut |-> en.AcIn1ToAcOut_kWh,
     Energy_InverterToAcOut |-> en.InverterToAcOut_kWh,
     Energy_OutToInverter |-> 0,
     Devices_0_UpTime |-> 0]

\* The reads of update() that abort the tick when they raise.
EmuRequired ==
    {SerialPort} \cup {201, 202, 203, 204, 210, 211, 212, 213, 214, 215, 216, 217}

\* The optional state-of-charge read: None when the read raises.
SocOrNone(img, bad) == IF 229 \in bad THEN None ELSE Some(r16(img, 229))

\* What update() assigns on the path past the try block, and to what:
\* en the counters after accumulation, t the time, i the bumped index.
EmuAssigned(img, bad, en, t, i) ==
    LET wm == r16(img, 201)
        in_v == r16(img, 202)
        in_f == r16(img, 203)
        in_p == r16(img, 204)
        in_i == IF in_v > 50 THEN Ratio(in_p, in_v) ELSE Ratio(0, 1)
        out_v == r16(img, 210)
        out_i == r16(img, 211)
        out_f == r16(img, 212)
        out_p == r16(img, 213)
        out_s == r16(img, 214)
        dc_v == r16(img, 215)
        dc_i == r16(img, 216)
        dc_p == r16(img, 217)
        soc == SocOrNone(img, bad)
        mains == mains_present(wm, in_v)
        always ==
            [Connected |-> 1,
             Mode |-> emu_vebus_mode_from_wm(wm),
             State |-> emu_vebus_state_from_wm(wm),
             VebusError |-> 0,
             VebusChargeState |-> IF wm = 5 THEN 3 ELSE 1,
             Ac_ActiveIn_Connected |-> IF mains THEN 1 ELSE 0,
             Ac_ActiveIn_ActiveInput |-> IF mains THEN 0 ELSE 240,
             Ac_ActiveIn_Available |-> 1,
             Ac_ActiveIn_Source |-> IF mains THEN 1 ELSE 0,
             Ac_ActiveIn_L1_V |-> Some(in_v),
             Ac_ActiveIn_L1_I |-> in_i,
             Ac_ActiveIn_L1_F |-> Some(in_f),
             Ac_ActiveIn_L1_P |-> Some(in_p),
             Ac_ActiveIn_L1_S |-> Some(Abs(in_p)),
             Ac_ActiveIn_V |-> Some(in_v),
             Ac_ActiveIn_Current |-> in_i,
             Ac_ActiveIn_Power |-> Some(in_p),
             Ac_ActiveIn_Frequency |-> Some(in_f),
             Ac_ActiveIn_P |-> Some(in_p),
             Ac_ActiveIn_S |-> Some(Abs(in_p)),
             Ac_Out_L1_V |-> Some(out_v),
             Ac_Out_L1_I |-> Some(out_i),
             Ac_Out_L1_F |-> Some(out_f),
             Ac_Out_L1_P |-> Some(out_p),
             Ac_Out_L1_S |-> Some(out_s),
             Ac_Out_P |-> Some(out_p),
             Ac_Out_S |-> Some(out_s),
             Dc_0_Voltage |-> Some(dc_v),
             Dc_0_Current |-> Some(dc_i),
             Dc_0_Power |-> Some(dc_p),
             Energy_AcIn1ToInverter |-> en.AcIn1ToInverter_kWh,
             Energy_AcIn1ToAcOut |-> en.AcIn1ToAcOut_kWh,
             Energy_InverterToAcOut |-> en.InverterToAcOut_kWh,
             Energy_OutToInverter |-> 0,
             Devices_0_UpTime |-> t - started,
             UpdateIndex |-> i]
    IN  IF soc = None THEN always ELSE [Soc |-> soc] @@ always

\* update() calling _save_energy before the accumulation.
EmuUpdateSaveFirst(img, bad, t, io) ==
    LET failed == EmuRequired \cap bad # {}
        wm == r16(img, 201)
        en == IF failed THEN energy
              ELSE Accumulate(energy, mains_present(wm, r16(img, 202)),
                              r16(img, 204), r16(img, 213))
        sv == IF failed THEN [file |-> file, last |-> last_energy_save, did |-> "none"]
              ELSE save_energy(t, energy, last_energy_save, file, io)
    IN  /\ RunTick(EmuService, failed,
                   EmuAssigned(img, bad, en, t, Bump(idx[EmuService])))
        /\ energy' = en
        /\ file' = sv.file
        /\ last_energy_save' = sv.last
        /\ saved' = sv.did
        /\ writes' = IF sv.did = "written" THEN Append(writes, t) ELSE writes

\* update() with a _save_energy that lets the error of a write out: the
\* callback ends there, before the lines that advance the update counter.
EmuUpdateWriteRaises(img, bad, t, io) ==
    LET failed == EmuRequired \cap bad # {}
        wm == r16(img, 201)
        en == IF failed THEN energy
              ELSE Accumulate(energy, mains_present(wm, r16(img, 202)),
                              r16(img, 204), r16(img, 213))
        sv == IF failed THEN [file |-> file, last |-> last_energy_save, did |-> "none"]
              ELSE save_energy(t, en, last_energy_save, file, io)
        all == EmuAssigned(img, bad, en, t, Bump(idx[EmuService]))
        w == IF sv.did = "failed"
             THEN [k \in DOMAIN all \ {"UpdateIndex", "Devices_0_UpTime"} |-> all[k]]
             ELSE all
    IN  /\ svc' = [svc EXCEPT ![EmuService] = IF failed THEN OnFailure(@) ELSE Assign(@, w)]
        /\ idx' = [idx EXCEPT ![EmuService] =
                      IF failed \/ sv.did = "failed" THEN @ ELSE Bump(@)]
        /\ written' = [written EXCEPT ![EmuService] =
                          IF failed THEN {"Connected"} ELSE DOMAIN w]
        /\ outcome' = IF failed THEN "Failed" ELSE "Published"
        /\ armed' = TRUE
        /\ energy' = en
        /\ file' = sv.file
        /\ last_energy_save' = sv.last
        /\ saved' = sv.did
        /\ writes' = IF sv.did = "written" THEN Append(writes, t) ELSE writes

\* MultiPlusEmuService.update, run at time t, reading img with the reads in
\* bad raising; io is what the file system does to a write it attempts.
EmuUpdate(img, bad, t, io) ==
    LET failed == EmuRequired \cap bad # {}
        wm == r16(img, 201)
        en == IF failed THEN energy
              ELSE Accumulate(energy, mains_present(wm, r16(img, 202)),
                              r16(img, 204), r16(img, 213))
        sv == IF failed THEN [file |-> file, last |-> last_energy_save, did |-> "none"]
              ELSE save_energy(t, en, last_energy_save, file, io)
    IN  /\ RunTick(EmuService, failed,
                   EmuAssigned(img, bad, en, t, Bump(idx[EmuService])))
        /\ energy' = en
        /\ file' = sv.file
        /\ last_energy_save' = sv.last
        /\ saved' = sv.did
        /\ writes' = IF sv.did = "written" THEN Append(writes, t) ELSE writes

-----------------------------------------------------------------------------
(* celmaibun.py *)

cel_vebus_mode_from_wm(wm) ==
    IF wm = 3 THEN 3
    ELSE IF wm \in {2, 4, 5} THEN 1
    ELSE 4

\* A translation whose last branch answers Off.
CelStateUnknownOff(wm) ==
    IF wm = 5 THEN 3
    ELSE IF wm = 3 THEN 9
    ELSE IF wm \in {2, 4} THEN 3
    ELSE IF wm \in {0, 1} THEN 1
    ELSE 0

cel_vebus_state_from_wm(wm) ==
    IF wm = 5 THEN 3
    ELSE IF wm = 3 THEN 9
    ELSE IF wm \in {2, 4} THEN 3
    ELSE IF wm \in {0, 1} THEN 1
    ELSE 1

CelPaths ==
    [Connected |-> 0, Mode |-> 4, State |-> 1, UpdateIndex |-> 0,
     Leds_Mains |-> 0, Leds_Inverter |-> 0, Leds_LowBattery |-> 0,
     Leds_Overload |-> 0, Leds_Temperature |-> 0,
     Ac_ActiveIn_Connected |-> 0, Ac_ActiveIn_ActiveInput |-> 240,
     Ac_ActiveIn_Available |-> 1, Ac_ActiveIn_Source |-> 240,
     Ac_ActiveIn_V |-> None, Ac_ActiveIn_Current |-> None,
     Ac_ActiveIn_Power |-> None, Ac_ActiveIn_Frequency |-> None,
     Ac_ActiveIn_CurrentLimit |-> 32, Ac_ActiveIn_CurrentLimitIsAdjustable |-> 0,
     Ac_ActiveIn_CurrentLimitOffered |-> 32,
     Ac_ActiveIn_L1_V |-> None, Ac_ActiveIn_L1_I |-> None,
     Ac_ActiveIn_L1_F |-> None, Ac_ActiveIn_L1_P |-> None,
     Ac_ActiveIn_L1_S |-> None, Ac_ActiveIn_P |-> None, Ac_ActiveIn_S |-> None,
     Ac_Out_L1_V |-> None, Ac_Out_L1_I |-> None, Ac_Out_L1_F |-> None,
     Ac_Out_L1_P |-> None, Ac_Out_L1_S |-> None,
     Ac_Out_P |-> None, Ac_Out_S |-> None,
     Dc_0_Voltage |-> None, Dc_0_Current |-> None, Dc_0_Power |-> None,
     Soc |-> None, Devices_0_UpTime |-> 0]

CelRequired ==
    {SerialPort} \cup {201, 202, 203, 204, 210, 211, 212, 213, 214, 215, 216, 217}

\* An update() that derives the current at every voltage from 0 up.
CelAssignedFromZero(img, bad, t, i) ==
    LET wm == r16(img, 201)
        in_v == r16(img, 202)
        in_f == r16(img, 203)
        in_p == Abs(r16(img, 204))
        in_i == IF in_v >= 0 THEN Ratio(in_p, in_v) ELSE Ratio(0, 1)
        out_p == r16(img, 213)
        out_s == r16(img, 214)
        dc_v == r16(img, 215)
        soc == SocOrNone(img, bad)
        mains == wm \in {2, 4, 5} \/ in_v > 1500
        always ==
            [Connected |-> 1,
             Mode |-> cel_vebus_mode_from_wm(wm),
             State |-> cel_vebus_state_from_wm(wm),
             Ac_ActiveIn_Connected |-> IF mains THEN 1 ELSE 0,
             Ac_ActiveIn_ActiveInput |-> IF mains THEN 0 ELSE 240,
             Ac_ActiveIn_Available |-> 1,
             Ac_ActiveIn_Source |-> IF mains THEN 1 ELSE 240,
             Ac_ActiveIn_L1_V |-> Some(in_v),
             Ac_ActiveIn_L1_I |-> in_i,
             Ac_ActiveIn_L1_F |-> Some(in_f),
             Ac_ActiveIn_L1_P |-> Some(in_p),
             Ac_ActiveIn_L1_S |-> Some(in_p),
             Ac_ActiveIn_V |-> Some(in_v),
             Ac_ActiveIn_Current |-> in_i,
             Ac_ActiveIn_Power |-> Some(in_p),
             Ac_ActiveIn_Frequency |-> Some(in_f),
             Ac_ActiveIn_P |-> Some(in_p),
             Ac_ActiveIn_S |-> Some(in_p),
             Ac_ActiveIn_CurrentLimit |-> 32,
             Ac_ActiveIn_CurrentLimitOffered |-> 32,
             Ac_ActiveIn_CurrentLimitIsAdjustable |-> 0,
             Ac_Out_L1_V |-> Some(r16(img, 210)),
             Ac_Out_L1_I |-> Some(r16(img, 211)),
             Ac_Out_L1_F |-> Some(r16(img, 212)),
             Ac_Out_L1_P |-> Some(out_p),
             Ac_Out_L1_S |-> Some(out_s),
             Ac_Out_P |-> Some(out_p),
             Ac_Out_S |-> Some(out_s),
             Dc_0_Voltage |-> Some(dc_v),
             Dc_0_Current |-> Some(r16(img, 216)),
             Dc_0_Power |-> Some(r16(img, 217)),
             Leds_Mains |-> IF mains THEN 1 ELSE 0,
             Leds_Inverter |-> IF wm = 3 THEN 1 ELSE 0,
             Leds_LowBattery |-> IF dc_v < 460 THEN 1 ELSE 0,
             Leds_Overload |-> 0,
             Leds_Temperature |-> 0,
             Devices_0_UpTime |-> t - started,
             UpdateIndex |-> i]
    IN  IF soc = None THEN always ELSE [Soc |-> soc] @@ always

\* What update() assigns on the path past the try block.
CelAssigned(img, bad, t, i) ==
    LET wm == r16(img, 201)
        in_v == r16(img, 202)
        in_f == r16(img, 203)
        in_p == Abs(r16(img, 204))
        in_i == IF in_v > 200 THEN Ratio(in_p, in_v) ELSE Ratio(0, 1)
        out_p == r16(img, 213)
        out_s == r16(img, 214)
        dc_v == r16(img, 215)
        soc == SocOrNone(img, bad)
        mains == wm \in {2, 4, 5} \/ in_v > 1500
        always ==
            [Connected |-> 1,
             Mode |-> cel_vebus_mode_from_wm(wm),
             State |-> cel_vebus_state_from_wm(wm),
             Ac_ActiveIn_Connected |-> IF mains THEN 1 ELSE 0,
             Ac_ActiveIn_ActiveInput |-> IF mains THEN 0 ELSE 240,
             Ac_ActiveIn_Available |-> 1,
             Ac_ActiveIn_Source |-> IF mains THEN 1 ELSE 240,
             Ac_ActiveIn_L1_V |-> Some(in_v),
             Ac_ActiveIn_L1_I |-> in_i,
             Ac_ActiveIn_L1_F |-> Some(in_f),
             Ac_ActiveIn_L1_P |-> Some(in_p),
             Ac_ActiveIn_L1_S |-> Some(in_p),
             Ac_ActiveIn_V |-> Some(in_v),
             Ac_ActiveIn_Current |-> in_i,
             Ac_ActiveIn_Power |-> Some(in_p),
             Ac_ActiveIn_Frequency |-> Some(in_f),
             Ac_ActiveIn_P |-> Some(in_p),
             Ac_ActiveIn_S |-> Some(in_p),
             Ac_ActiveIn_CurrentLimit |-> 32,
             Ac_ActiveIn_CurrentLimitOffered |-> 32,
             Ac_ActiveIn_CurrentLimitIsAdjustable |-> 0,
             Ac_Out_L1_V |-> Some(r16(img, 210)),
             Ac_Out_L1_I |-> Some(r16(img, 211)),
             Ac_Out_L1_F |-> Some(r16(img, 212)),
             Ac_Out_L1_P |-> Some(out_p),
             Ac_Out_L1_S |-> Some(out_s),
             Ac_Out_P |-> Some(out_p),
             Ac_Out_S |-> Some(out_s),
             Dc_0_Voltage |-> Some(dc_v),
             Dc_0_Current |-> Some(r16(img, 216)),
             Dc_0_Power |-> Some(r16(img, 217)),
             Leds_Mains |-> IF mains THEN 1 ELSE 0,
             Leds_Inverter |-> IF wm = 3 THEN 1 ELSE 0,
             Leds_LowBattery |-> IF dc_v < 460 THEN 1 ELSE 0,
             Leds_Overload |-> 0,
             Leds_Temperature |-> 0,
             Devices_0_UpTime |-> t - started,
             UpdateIndex |-> i]
    IN  IF soc = None THEN always ELSE [Soc |-> soc] @@ always

\* MultiPlusEmuService.update of celmaibun.py, run at time t.
CelUpdate(img, bad, t) ==
    RunTick("vebus", CelRequired \cap bad # {},
            CelAssigned(img, bad, t, Bump(idx["vebus"])))

-----------------------------------------------------------------------------
(* multiplus.py *)

mp_vebus_mode_from_wm(wm) ==
    IF wm = 5 THEN 1
    ELSE IF wm \in {3, 2, 4} THEN 3
    ELSE 4

\* vebus_state_from_wm with the working mode Fault shown as the state Fault (2).
MpStateFaultAsFault(wm) ==
    IF wm \in {1, 0} THEN 1
    ELSE IF wm \in {3, 2, 4, 5} THEN 9
    ELSE IF wm = 6 THEN 2
    ELSE 1

mp_vebus_state_from_wm(wm) ==
    IF wm \in {1, 0} THEN 1
    ELSE IF wm \in {3, 2, 4, 5} THEN 9
    ELSE IF wm = 6 THEN 1
    ELSE 1

MpPaths ==
    [Connected |-> 0, Serial |-> <<>>, UpdateIndex |-> 0,
     Ac_ActiveIn_ActiveInput |-> 240,
     Ac_ActiveIn_L1_V |-> None, Ac_ActiveIn_L1_I |-> None,
     Ac_ActiveIn_L1_F |-> None, Ac_ActiveIn_L1_P |-> None,
     Ac_Out_L1_V |-> None, Ac_Out_L1_I |-> None, Ac_Out_L1_F |-> None,
     Ac_Out_L1_P |-> None, Ac_Out_L1_S |-> None,
     Dc_0_Voltage |-> None, Dc_0_Current |-> None, Dc_0_Power |-> None,
     Soc |-> None, Mode |-> 4, State |-> 1,
     VebusError |-> 0, VebusChargeState |-> 9,
     Temperature_Dcdc |-> None, Temperature_Inverter |-> None]

\* The reads of collect_snapshot() outside a try of their own.
MpRequired ==
    {SerialPort} \cup
    {201, 202, 203, 204, 210, 211, 212, 213, 214, 215, 216, 217, 226, 227}
        \cup Ascii(SerialBase, SerialWords)

\* collect_snapshot() then publish(snap): what is assigned.
MpAssigned(img, bad, i) ==
    LET wm == r16(img, 201)
        in_v == r16(img, 202)
        in_p == r16(img, 204)
        in_i == IF in_v # 0 THEN Ratio(in_p, in_v) ELSE Ratio(0, 1)
        soc == SocOrNone(img, bad)
        active_input == IF wm \in {2, 5, 4} /\ in_v > 300 THEN 0 ELSE 240
        always ==
            [Connected |-> 1,
             Serial |-> <<>>,
             Ac_ActiveIn_ActiveInput |-> active_input,
             Ac_ActiveIn_L1_V |-> Some(in_v),
             Ac_ActiveIn_L1_I |-> in_i,
             Ac_ActiveIn_L1_F |-> Some(r16(img, 203)),
             Ac_ActiveIn_L1_P |-> Some(in_p),
             Ac_Out_L1_V |-> Some(r16(img, 210)),
             Ac_Out_L1_I |-> Some(r16(img, 211)),
             Ac_Out_L1_F |-> Some(r16(img, 212)),
             Ac_Out_L1_P |-> Some(r16(img, 213)),
             Ac_Out_L1_S |-> Some(r16(img, 214)),
             Dc_0_Voltage |-> Some(r16(img, 215)),
             Dc_0_Current |-> Some(r16(img, 216)),
             Dc_0_Power |-> Some(r16(img, 217)),
             Mode |-> mp_vebus_mode_from_wm(wm),
             State |-> mp_vebus_state_from_wm(wm),
             VebusError |-> 0,
             VebusChargeState |-> 9,
             Temperature_Dcdc |-> Some(r16(img, 226)),
             Temperature_Inverter |-> Some(r16(img, 227)),
             UpdateIndex |-> i]
    IN  IF soc = None THEN always ELSE [Soc |-> soc] @@ always

\* main.tick of multiplus.py
MpTickBody(img, bad) ==
    RunTick("vebus", MpRequired \cap bad # {},
            MpAssigned(img, bad, Bump(idx["vebus"])))

-----------------------------------------------------------------------------
(* inverter.py *)

\* venus_mode_from_wm with Charging left out of the modes that are On.
VenusModeNoCharging(wm) ==
    IF wm \in {3, 2, 4} THEN 1
    ELSE 4

venus_mode_from_wm(wm) ==
    IF wm \in {3, 2, 4, 5} THEN 1
    ELSE IF wm \in {1, 0, 6} THEN 4
    ELSE 4

\* venus_state_from_wm that holds Inverting through a reading of PowerOn or
\* Standby: the state published before decides the one published now.
VenusStateHolds(wm) ==
    IF wm \in {1, 0} THEN (IF svc["inverter"].State = 9 THEN 9 ELSE 1)
    ELSE IF wm \in {3, 2, 4, 5} THEN 9
    ELSE IF wm = 6 THEN 1
    ELSE 1

venus_state_from_wm(wm) ==
    IF wm \in {1, 0} THEN 1
    ELSE IF wm \in {3, 2, 4, 5} THEN 9
    ELSE IF wm = 6 THEN 1
    ELSE 1

InvPaths ==
    [Connected |-> 0, Serial |-> <<>>, UpdateIndex |-> 0,
     Ac_Out_L1_V |-> None, Ac_Out_L1_I |-> None, Ac_Out_L1_F |-> None,
     Ac_Out_L1_P |-> None, Ac_Out_L1_S |-> None,
     Dc_0_Voltage |-> None, Dc_0_Current |-> None, Dc_0_Power |-> None,
     Inverter_Internal_V |-> None, Inverter_Internal_I |-> None,
     Inverter_Internal_F |-> None, Inverter_Internal_P |-> None,
     Mode |-> 4, State |-> 1, Status_FaultCode |-> 0, Status_WarningCode |-> 0,
     Temperature_Dcdc |-> None, Temperature_Inverter |-> None]

InvRequired ==
    {SerialPort} \cup
    {201, 210, 211, 212, 213, 214, 215, 216, 217, 205, 206, 207, 208, 226, 227}
        \cup Ascii(SerialBase, SerialWords) \cup R32(100) \cup R32(108)

\* collect_snapshot() then publish(snap): what is assigned.
InvAssigned(img, i) ==
    LET wm == r16(img, 201)
    IN  [Connected |-> 1,
         Serial |-> read_ascii(img, SerialBase, SerialWords),
         Ac_Out_L1_V |-> Some(r16(img, 210)),
         Ac_Out_L1_I |-> Some(r16(img, 211)),
         Ac_Out_L1_F |-> Some(r16(img, 212)),
         Ac_Out_L1_P |-> Some(r16(img, 213)),
         Ac_Out_L1_S |-> Some(r16(img, 214)),
         Dc_0_Voltage |-> Some(r16(img, 215)),
         Dc_0_Current |-> Some(r16(img, 216)),
         Dc_0_Power |-> Some(r16(img, 217)),
         Inverter_Internal_V |-> Some(r16(img, 205)),
         Inverter_Internal_I |-> Some(r16(img, 206)),
         Inverter_Internal_F |-> Some(r16(img, 207)),
         Inverter_Internal_P |-> Some(r16(img, 208)),
         Temperature_Dcdc |-> Some(r16(img, 226)),
         Temperature_Inverter |-> Some(r16(img, 227)),
         Status_FaultCode |-> r32(img, 100),
         Status_WarningCode |-> r32(img, 108),
         Mode |-> venus_mode_from_wm(wm),
         State |-> venus_state_from_wm(wm),
         UpdateIndex |-> i]

\* main.tick of inverter.py
InvTickBody(img, bad) ==
    RunTick("inverter", InvRequired \cap bad # {},
            InvAssigned(img, Bump(idx["inverter"])))

-----------------------------------------------------------------------------
(* battery_service.py *)

BatPaths ==
    [Connected |-> 0, Serial |-> <<>>, UpdateIndex |-> 0,
     Dc_0_Voltage |-> None, Dc_0_Current |-> None, Dc_0_Power |-> None,
     Soc |-> None, Temperature |-> None,
     Status_Mode |-> "", Status_FaultCode |-> 0, Status_WarningCode |-> 0]

BatRequired ==
    {SerialPort} \cup
    {201, 215, 216, 217, 229, 227}
        \cup R32(100) \cup R32(108) \cup Ascii(SerialBase, SerialWords)

\* collect_snapshot() then publish(snap): what is assigned.
BatAssigned(img, mode, i) ==
    [Connected |-> 1,
     Serial |-> read_ascii(img, SerialBase, SerialWords),
     Dc_0_Voltage |-> Some(r16(img, 215)),
     Dc_0_Current |-> Some(r16(img, 216)),
     Dc_0_Power |-> Some(r16(img, 217)),
     Soc |-> Some(r16(img, 229)),
     Temperature |-> Some(r16(img, 227)),
     Status_Mode |-> mode,
     Status_FaultCode |-> r32(img, 100),
     Status_WarningCode |-> r32(img, 108),
     UpdateIndex |-> i]

\* main.tick of battery_service.py
BatTickBody(img, bad) ==
    RunTick("battery", BatRequired \cap bad # {},
            BatAssigned(img, ModeGet(r16(img, 201), ""), Bump(idx["battery"])))

-----------------------------------------------------------------------------
(* pv_service.py *)

PvPaths ==
    [Connected |-> 0, Serial |-> <<>>, UpdateIndex |-> 0,
     Ac_Power |-> None, Ac_L1_Power |-> None, Ac_L1_Voltage |-> None,
     Ac_L1_Current |-> None, Ac_L1_Frequency |-> None,
     Status_Mode |-> "", Status_FaultCode |-> 0, Status_WarningCode |-> 0]

PvRequired ==
    {SerialPort} \cup
    {201, 219, 220, 223, 224}
        \cup R32(100) \cup R32(108) \cup Ascii(SerialBase, SerialWords)

\* pv_p = snap["Pv_Pch"] if snap["Pv_Pch"] else snap["Pv_P"]
PvPower(img) == IF r16(img, 224) # 0 THEN r16(img, 224) ELSE r16(img, 223)

\* publish(snap) of the PV service: what is assigned; mode is snap["Mode"].
PvAssigned(img, mode, i) ==
    [Connected |-> 1,
     Serial |-> read_ascii(img, SerialBase, SerialWords),
     Ac_Power |-> Some(PvPower(img)),
     Ac_L1_Power |-> Some(PvPower(img)),
     Ac_L1_Voltage |-> Some(r16(img, 219)),
     Ac_L1_Current |-> Some(r16(img, 220)),
     Ac_L1_Frequency |-> None,
     Status_Mode |-> mode,
     Status_FaultCode |-> r32(img, 100),
     Status_WarningCode |-> r32(img, 108),
     UpdateIndex |-> i]

\* main.tick of pv_service.py
PvTickBody(img, bad) ==
    RunTick("pvinverter", PvRequired \cap bad # {},
            PvAssigned(img, ModeGet(r16(img, 201), ""), Bump(idx["pvinverter"])))

-----------------------------------------------------------------------------
(* service.py: one collect_snapshot() published to a PV and a battery service *)

SvcRequired ==
    {SerialPort} \cup
    {201, 202, 203, 204, 205, 206, 207, 208, 209, 210, 211, 212, 213, 214,
     215, 216, 217, 229, 219, 220, 223, 224, 226, 227}
        \cup R32(100) \cup R32(108) \cup Ascii(SerialBase, SerialWords)

\* An iteration whose except branch marks the PV service alone.
SvcLoopBodyPvOnly(img, bad) ==
    LET failed == SvcRequired \cap bad # {}
        mode == ModeGet(r16(img, 201), ToString(r16(img, 201)))
        pv == PvAssigned(img, mode, Bump(idx["pvinverter"]))
        bat == BatAssigned(img, mode, Bump(idx["battery"]))
    IN  /\ svc' = [n \in DOMAIN svc |->
                    IF failed
                    THEN (IF n = "pvinverter" THEN OnFailure(svc[n]) ELSE svc[n])
                    ELSE Assign(svc[n], IF n = "pvinverter" THEN pv ELSE bat)]
        /\ idx' = [n \in DOMAIN idx |-> IF failed THEN idx[n] ELSE Bump(idx[n])]
        /\ written' = [n \in DOMAIN written |->
                        IF failed THEN (IF n = "pvinverter" THEN {"Connected"} ELSE {})
                        ELSE DOMAIN (IF n = "pvinverter" THEN pv ELSE bat)]
        /\ outcome' = IF failed THEN "Failed" ELSE "Published"
        /\ armed' = TRUE

\* One iteration of SumryPublisher._loop, up to its sleeps.
SvcLoopBody(img, bad) ==
    LET failed == SvcRequired \cap bad # {}
        mode == ModeGet(r16(img, 201), ToString(r16(img, 201)))
        pv == PvAssigned(img, mode, Bump(idx["pvinverter"]))
        bat == BatAssigned(img, mode, Bump(idx["battery"]))
    IN  /\ svc' = [n \in DOMAIN svc |->
                    IF failed THEN OnFailure(svc[n])
                    ELSE Assign(svc[n], IF n = "pvinverter" THEN pv ELSE bat)]
        /\ idx' = [n \in DOMAIN idx |-> IF failed THEN idx[n] ELSE Bump(idx[n])]
        /\ written' = [n \in DOMAIN written |->
                        IF failed THEN {"Connected"}
                        ELSE DOMAIN (IF n = "pvinverter" THEN pv ELSE bat)]
        /\ outcome' = IF failed THEN "Failed" ELSE "Published"
        /\ armed' = TRUE

\* time.sleep(0.02) of r16, in milliseconds.
INTER_FRAME_MS == 20

\* The transactions on the serial link, in the order of the code; pause is
\* the time the code sleeps between the return of the transaction before
\* and the request of this one.
\* r16: the sleep, then inv.read_register.
R16Frames(addr) == <<[addr |-> addr, count |-> 1, pause |-> INTER_FRAME_MS]>>

\* r32: two r16.
R32Frames(addr) == R16Frames(addr) \o R16Frames(addr + 1)

\* read_ascii: inv.read_registers on the block, or on its two halves, with
\* no sleep before either.
ReadAsciiFrames(addr, count) ==
    IF count > 6
    THEN <<[addr |-> addr, count |-> 6, pause |-> 0],
           [addr |-> addr + 6, count |-> count - 6, pause |-> 0]>>
    ELSE <<[addr |-> addr, count |-> count, pause |-> 0]>>

RECURSIVE Frames16(_)
\* The r16 calls made one after another on a list of addresses.
Frames16(addrs) ==
    IF addrs = <<>> THEN <<>> ELSE R16Frames(Head(addrs)) \o Frames16(Tail(addrs))

\* The transactions of one collect_snapshot() of service.py in which no
\* read raises.
SvcFrames ==
    Frames16(<<201, 202, 203, 204, 205, 206, 207, 208, 209, 210, 211, 212, 213,
               214, 215, 216, 217, 229, 219, 220, 223, 224, 226, 227>>)
        \o R32Frames(100) \o R32Frames(108)
        \o ReadAsciiFrames(SerialBase, SerialWords)

\* The sleeps that end the iteration: 2.0 more after a failure.
SvcSleep(bad) == (IF SvcRequired \cap bad # {} THEN 2 ELSE 0) + POLL_SEC

-----------------------------------------------------------------------------
(* The process *)

Programs == {"emu", "celmaibun", "multiplus", "inverter", "battery", "pv", "service"}

\* The services the program registers.
Services(p) ==
    CASE p \in {"emu", "celmaibun", "multiplus"} -> {"vebus"}
      [] p = "inverter" -> {"inverter"}
      [] p = "battery" -> {"battery"}
      [] p = "pv" -> {"pvinverter"}
      [] OTHER -> {"pvinverter", "battery"}

\* The paths of service n of program p as its constructor leaves them.
FirstPaths(p, n, en) ==
    CASE p = "emu" -> EmuPaths(en)
      [] p = "celmaibun" -> CelPaths
      [] p = "multiplus" -> MpPaths
      [] p = "inverter" -> InvPaths
      [] n = "battery" -> BatPaths
      [] OTHER -> PvPaths

\* main() that builds the service before it loads the energy file: the
\* energy paths are added with the counters at 0.
StartedBeforeLoad(p, f) ==
    LET ld == IF p = "emu" THEN load_energy(ZeroEnergy, f)
              ELSE [energy |-> ZeroEnergy, raised |-> FALSE]
    IN  [energy |-> ld.energy,
         svc |-> [n \in Services(p) |-> FirstPaths(p, n, ZeroEnergy)],
         idx |-> [n \in Services(p) |-> 0],
         outcome |-> IF ld.raised THEN "Crashed" ELSE "Idle"]

\* The state main() of program p leaves when it has built its services, the
\* energy file being f at that time.
\* outcome is "Crashed" when an exception ended main().
Started(p, f) ==
    LET ld == IF p = "emu" THEN load_energy(ZeroEnergy, f)
              ELSE [energy |-> ZeroEnergy, raised |-> FALSE]
    IN  [energy |-> ld.energy,
         svc |-> [n \in Services(p) |-> FirstPaths(p, n, ld.energy)],
         idx |-> [n \in Services(p) |-> 0],
         outcome |-> IF ld.raised THEN "Crashed" ELSE "Idle"]

NoFile == [state |-> "missing", data |-> NoData]

\* The first start of the program prog, the energy file being f.
InitFrom(f) ==
    /\ now = StartTime
    /\ started = StartTime
    /\ file = f
    /\ energy = Started(prog, f).energy
    /\ last_energy_save = 0
    /\ svc = Started(prog, f).svc
    /\ idx = Started(prog, f).idx
    /\ written = [n \in Services(prog) |-> {}]
    /\ outcome = Started(prog, f).outcome
    /\ saved = "none"
    /\ writes = <<>>
    /\ seen = None
    /\ heard = <<>>
    /\ ticks = 0
    /\ armed = TRUE
    /\ pending = <<>>
    /\ boots = 0

Init ==
    /\ prog \in Programs
    /\ InitFrom(NoFile)

\* What the file system may do to the write of a tick at time t: nothing to
\* choose when the tick fails before it, or the throttle skips it.
IoAt(ios, t, failed) ==
    IF failed \/ t - last_energy_save < ENERGY_SAVE_SEC THEN {"ok"} ELSE ios

\* The images to read: one is enough when the tick fails.
ImagesFor(imgs, failed) == IF failed THEN {CHOOSE i \in imgs : TRUE} ELSE imgs

\* What a tick leaves alone in the programs that keep no energy.
NoEnergy == UNCHANGED <<energy, last_energy_save, file, saved, writes>>

\* The words of the serial number in the image a tick publishes from; none
\* when it fails.
Heard(img, failed) ==
    IF failed THEN <<>> ELSE Words(img, SerialBase, SerialWords)

\* The working mode of the snapshot a tick publishes; none when it fails.
Seen(img, failed) == IF failed THEN None ELSE Some(r16(img, 201))

\* One timer callback of dbus-multiplus-emulator.py, POLL_SEC + d after the
\* one before.
EmuStep(imgs, bads, delays, ios) ==
    /\ prog = "emu"
    /\ armed
    /\ outcome # "Crashed"
    /\ \E d \in delays, bad \in bads :
         LET t == now + POLL_SEC + d
             failed == EmuRequired \cap bad # {}
         IN  \E img \in ImagesFor(imgs, failed), io \in IoAt(ios, t, failed) :
                /\ EmuUpdate(img, bad, t, io)
                /\ seen' = Seen(img, failed)
                /\ heard' = Heard(img, failed)
                /\ now' = t
    /\ ticks' = ticks + 1
    /\ UNCHANGED <<prog, started, pending, boots>>

\* One timer callback of celmaibun.py.
CelStep(imgs, bads, delays) ==
    /\ prog = "celmaibun"
    /\ armed
    /\ \E d \in delays, bad \in bads :
         \E img \in ImagesFor(imgs, CelRequired \cap bad # {}) :
            /\ CelUpdate(img, bad, now + POLL_SEC + d)
            /\ seen' = Seen(img, CelRequired \cap bad # {})
            /\ heard' = Heard(img, CelRequired \cap bad # {})
            /\ now' = now + POLL_SEC + d
    /\ ticks' = ticks + 1
    /\ NoEnergy
    /\ UNCHANGED <<prog, started, pending, boots>>

\* One timer callback of multiplus.py.
MpStep(imgs, bads, delays) ==
    /\ prog = "multiplus"
    /\ armed
    /\ \E d \in delays, bad \in bads :
         \E img \in ImagesFor(imgs, MpRequired \cap bad # {}) :
            /\ MpTickBody(img, bad)
            /\ seen' = Seen(img, MpRequired \cap bad # {})
            /\ heard' = Heard(img, MpRequired \cap bad # {})
            /\ now' = now + POLL_SEC + d
    /\ ticks' = ticks + 1
    /\ NoEnergy
    /\ UNCHANGED <<prog, started, pending, boots>>

\* One timer callback of inverter.py.
InvStep(imgs, bads, delays) ==
    /\ prog = "inverter"
    /\ armed
    /\ \E d \in delays, bad \in bads :
         \E img \in ImagesFor(imgs, InvRequired \cap bad # {}) :
            /\ InvTickBody(img, bad)
            /\ seen' = Seen(img, InvRequired \cap bad # {})
            /\ heard' = Heard(img, InvRequired \cap bad # {})
            /\ now' = now + POLL_SEC + d
    /\ ticks' = ticks + 1
    /\ NoEnergy
    /\ UNCHANGED <<prog, started, pending, boots>>

\* One timer callback of battery_service.py.
BatStep(imgs, bads, delays) ==
    /\ prog = "battery"
    /\ armed
    /\ \E d \in delays, bad \in bads :
         \E img \in ImagesFor(imgs, BatRequired \cap bad # {}) :
            /\ BatTickBody(img, bad)
            /\ seen' = Seen(img, BatRequired \cap bad # {})
            /\ heard' = Heard(img, BatRequired \cap bad # {})
            /\ now' = now + POLL_SEC + d
    /\ ticks' = ticks + 1
    /\ NoEnergy
    /\ UNCHANGED <<prog, started, pending, boots>>

\* One timer callback of pv_service.py.
PvStep(imgs, bads, delays) ==
    /\ prog = "pv"
    /\ armed
    /\ \E d \in delays, bad \in bads :
         \E img \in ImagesFor(imgs, PvRequired \cap bad # {}) :
            /\ PvTickBody(img, bad)
            /\ seen' = Seen(img, PvRequired \cap bad # {})
            /\ heard' = Heard(img, PvRequired \cap bad # {})
            /\ now' = now + POLL_SEC + d
    /\ ticks' = ticks + 1
    /\ NoEnergy
    /\ UNCHANGED <<prog, started, pending, boots>>

\* One iteration of the worker loop of service.py: the body, then the sleeps.
SvcStep(imgs, bads, delays) ==
    /\ prog = "service"
    /\ armed
    /\ \E d \in delays, bad \in bads :
         \E img \in ImagesFor(imgs, SvcRequired \cap bad # {}) :
            /\ SvcLoopBody(img, bad)
            /\ seen' = Seen(img, SvcRequired \cap bad # {})
            /\ heard' = Heard(img, SvcRequired \cap bad # {})
            /\ now' = now + SvcSleep(bad) + d
    /\ ticks' = ticks + 1
    /\ NoEnergy
    /\ UNCHANGED <<prog, started, pending, boots>>

\* The reads that raise in one tick: none; the state of charge; the first
\* read; a read in the middle; the second block of the serial number; the
\* last word of the warning code; the AC-in power and the state of charge.
Bads == {{}, {229}, {201}, {217}, {SerialBase + 6}, {109}, {204, 229}}

Ios == {"ok", "open_fails", "dump_fails"}

EmuTick == ticks < MaxTicks /\ EmuStep(Images, Bads, Delays, Ios)
CelTick == ticks < MaxTicks /\ CelStep(Images, Bads, Delays)
MpTick == ticks < MaxTicks /\ MpStep(Images, Bads, Delays)
InvTick == ticks < MaxTicks /\ InvStep(Images, Bads, Delays)
BatTick == ticks < MaxTicks /\ BatStep(Images, Bads, Delays)
PvTick == ticks < MaxTicks /\ PvStep(Images, Bads, Delays)
SvcLoop == ticks < MaxTicks /\ SvcStep(Images, Bads, Delays)

\* The process stops (killed, crashed, rebooted) and main() runs again.  A
\* process that has not ticked yet is where main() left it, and starting it
\* again changes nothing: only one that has ticked is restarted.
Restart ==
    /\ boots < MaxBoots
    /\ outcome # "Idle"
    /\ energy' = Started(prog, file).energy
    /\ svc' = Started(prog, file).svc
    /\ idx' = Started(prog, file).idx
    /\ last_energy_save' = 0
    /\ written' = [n \in Services(prog) |-> {}]
    /\ started' = now
    /\ outcome' = Started(prog, file).outcome
    /\ saved' = "none"
    /\ writes' = <<>>
    /\ seen' = None
    /\ heard' = <<>>
    /\ armed' = TRUE
    /\ pending' = <<>>
    /\ boots' = boots + 1
    /\ UNCHANGED <<prog, file, now, ticks>>

Next ==
    \/ EmuTick \/ CelTick \/ MpTick \/ InvTick \/ BatTick \/ PvTick \/ SvcLoop
    \/ Restart

Spec == Init /\ [][Next]_vars

-----------------------------------------------------------------------------
(* Long runs *)

\* ticks of the run that takes the update counter around
WrapTicks == 258

\* The reads that raise in the long run: a required one, at the start of the
\* run and where the counter is about to wrap.
WrapBads == IF ticks < 2 \/ \E n \in DOMAIN idx : idx[n] = 255 THEN {{}, {201}} ELSE {{}}

WrapImages == {Image(5, 2300, 1000, 1000, 80, 1)}

WrapTick ==
    /\ ticks < WrapTicks
    /\ \/ EmuStep(WrapImages, WrapBads, {0}, {"ok"})
       \/ CelStep(WrapImages, WrapBads, {0})
       \/ MpStep(WrapImages, WrapBads, {0})
       \/ InvStep(WrapImages, WrapBads, {0})
       \/ BatStep(WrapImages, WrapBads, {0})
       \/ PvStep(WrapImages, WrapBads, {0})
       \/ SvcStep(WrapImages, WrapBads, {0})

WrapRestart ==
    /\ ticks < 2 \/ \E n \in DOMAIN idx : idx[n] = 255
    /\ Restart

WrapNext == WrapTick \/ WrapRestart

\* Every program, ticking on time until its update counter has gone around.
SpecWrap == Init /\ [][WrapNext]_vars

\* The ticks of one hour at the poll interval.
ScenarioTicks == 3600 \div POLL_SEC

LongInit == Init /\ prog = "emu"

\* One tick of the scenario: 1000 W at the output, off grid, on time, the
\* state of charge read or not.
LongTick ==
    /\ ticks < ScenarioTicks
    /\ EmuStep({Image(3, 0, 0, 1000, 80, 0)}, {{}, {229}}, {0}, {"ok"})

\* The emulator under a steady load for an hour.
SpecLong == LongInit /\ [][LongTick]_vars

-----------------------------------------------------------------------------
(* Properties *)

\* The step is a tick that ended as o.
TickEnds(o) == ticks' # ticks /\ outcome' = o

\* C1: within one process lifetime no tick, published or failed, whatever the
\* registers hold, makes an energy counter smaller.
C1_CountersNonDecreasing ==
    [][boots' = boots => \A k \in EnergyKeys : energy'[k] >= energy[k]]_vars

\* A tick that read a negative output power when the counter had grown.
C1_Witness ==
    /\ prog = "emu"
    /\ outcome = "Published"
    /\ svc["vebus"].Ac_Out_L1_P = Some(-200)
    /\ energy.InverterToAcOut_kWh > 0

\* C2: a tick in which a required read raises leaves the energy counters and
\* the update counter as they were and sets /Connected to 0.
C2_FailedAcquisition ==
    [][TickEnds("Failed") =>
          /\ energy' = energy
          /\ idx' = idx
          /\ \A n \in DOMAIN svc :
                /\ svc'[n].UpdateIndex = svc[n].UpdateIndex
                /\ svc'[n].Connected = 0]_vars

\* The emulator failed after a tick that published and counted energy.
C2_Witness ==
    /\ prog = "emu"
    /\ outcome = "Failed"
    /\ idx["vebus"] = 1
    /\ energy.InverterToAcOut_kWh > 0
    /\ svc["vebus"].Connected = 0

\* C3: a failed tick leaves every path but /Connected at the value it had, in
\* every program and on every service of it.
C3_FailedPublishesNothing ==
    [][TickEnds("Failed") =>
          \A n \in DOMAIN svc : \A k \in DOMAIN svc[n] \ {"Connected"} :
              svc'[n][k] = svc[n][k]]_vars

\* The combined program failed after it had published: both services show
\* the values of the earlier tick.
C3_Witness ==
    /\ prog = "service"
    /\ outcome = "Failed"
    /\ svc["battery"].UpdateIndex = 1
    /\ svc["pvinverter"].UpdateIndex = 1
    /\ svc["battery"].Soc # None
    /\ svc["battery"].Connected = 0

\* C4: after a published tick, a path the tick did not assign holds no
\* reading: what the sink shows was all read in that tick.
C4_NoStaleQuantity ==
    outcome = "Published" =>
        \A n \in DOMAIN svc : \A k \in DOMAIN svc[n] \ written[n] : svc[n][k] = None

\* C5: /Connected is 1 exactly when the latest tick published; it is 0 before
\* the first tick of a process and after a tick that failed.
C5_ConnectedIffSucceeded ==
    \A n \in DOMAIN svc : svc[n].Connected = IF outcome = "Published" THEN 1 ELSE 0

\* The battery program published after a tick that had failed.
C5_Witness ==
    /\ prog = "battery"
    /\ outcome = "Published"
    /\ ticks = 2
    /\ idx["battery"] = 1
    /\ svc["battery"].Connected = 1

\* C6: the update counter is 0 when the process starts, stays in 0..255, is
\* what /UpdateIndex shows, becomes (previous + 1) mod 256 on a published tick
\* and changes on no other step of the process.
C6_UpdateCounter ==
    /\ [](\A n \in DOMAIN idx :
            /\ idx[n] \in 0 .. 255
            /\ svc[n].UpdateIndex = idx[n]
            /\ outcome = "Idle" => idx[n] = 0)
    /\ [][\A n \in DOMAIN idx :
            idx'[n] = IF TickEnds("Published") THEN (idx[n] + 1) % 256
                      ELSE IF boots' # boots THEN 0
                      ELSE idx[n]]_vars

\* The counter went from 255 to 0 on a published tick.
C6_Witness ==
    /\ outcome = "Published"
    /\ ticks >= 256
    /\ \E n \in DOMAIN idx : idx[n] = 0 /\ svc[n].UpdateIndex = 0

\* C7: a published tick that follows another adds to the output counter the
\* output power times the time since that tick, when the power is positive.
C7_ElapsedTime ==
    [][(prog = "emu" /\ ticks >= 1 /\ boots' = boots /\ TickEnds("Published")
            /\ svc'["vebus"].Ac_Out_L1_P[1] > 0) =>
          energy'.InverterToAcOut_kWh - energy.InverterToAcOut_kWh
              = svc'["vebus"].Ac_Out_L1_P[1] * (now' - now)]_vars

\* C8: a published tick with output power <= 0 leaves InverterToAcOut_kWh as
\* it was, and one with grid power <= 0 leaves the two grid counters.
C8_NoPowerNoChange ==
    [][(prog = "emu" /\ TickEnds("Published")) =>
          /\ svc'["vebus"].Ac_Out_L1_P[1] <= 0 =>
                energy'.InverterToAcOut_kWh = energy.InverterToAcOut_kWh
          /\ svc'["vebus"].Ac_ActiveIn_L1_P[1] <= 0 =>
                /\ energy'.AcIn1ToInverter_kWh = energy.AcIn1ToInverter_kWh
                /\ energy'.AcIn1ToAcOut_kWh = energy.AcIn1ToAcOut_kWh]_vars

\* A tick read no output power and power flowing back to the grid, with
\* mains present, when all counters had grown.
C8_Witness ==
    /\ prog = "emu"
    /\ outcome = "Published"
    /\ svc["vebus"].Ac_Out_L1_P = Some(0)
    /\ svc["vebus"].Ac_ActiveIn_L1_P = Some(-500)
    /\ svc["vebus"].Ac_ActiveIn_Connected = 1
    /\ energy.InverterToAcOut_kWh > 0
    /\ energy.AcIn1ToInverter_kWh > 0

\* C9: 1000 W at the output over the published ticks of one hour add one
\* kilowatt-hour, to the watt-second, to InverterToAcOut_kWh.
C9_OneKilowattHour ==
    ticks = ScenarioTicks =>
        /\ energy.InverterToAcOut_kWh = WsPerKWh
        /\ svc["vebus"].Energy_InverterToAcOut = WsPerKWh

\* The hour is over, every tick of it published.
C9_Witness ==
    /\ ticks = ScenarioTicks
    /\ idx["vebus"] = ScenarioTicks % 256
    /\ svc["vebus"].Ac_Out_L1_P = Some(1000)

\* C10: a restart with the energy file in place starts from counters no
\* lower than those the process held when it stopped.
C10_RestartKeepsCounters ==
    [][(boots' # boots /\ file.state = "json") =>
          \A k \in EnergyKeys : energy'[k] >= energy[k]]_vars

-----------------------------------------------------------------------------
(* The emulator started on an energy file it finds *)

\* The files the first start may find: none; one that is not JSON; JSON that
\* is no object; the counters of an earlier run; one key only; a negative
\* number; a boolean and a string; an integer too large for a float.
Files ==
    { NoFile,
      [state |-> "malformed", data |-> NoData],
      [state |-> "other", data |-> NoData],
      [state |-> "json", data |-> json_dump(
          [AcIn1ToInverter_kWh |-> 5000, AcIn1ToAcOut_kWh |-> 5000,
           InverterToAcOut_kWh |-> 7000])],
      [state |-> "json", data |-> [k \in {"InverterToAcOut_kWh"} |-> <<"num", 7000>>]],
      [state |-> "json", data |->
          [k \in EnergyKeys |->
              IF k = "InverterToAcOut_kWh" THEN <<"num", -5000>> ELSE <<"num", 5000>>]],
      [state |-> "json", data |->
          [k \in EnergyKeys |->
              CASE k = "AcIn1ToInverter_kWh" -> <<"bool", 1>>
                [] k = "AcIn1ToAcOut_kWh" -> <<"str", 0>>
                [] OTHER -> <<"num", 7000>>]],
      [state |-> "json", data |->
          [k \in EnergyKeys |->
              CASE k = "AcIn1ToInverter_kWh" -> <<"num", 1000>>
                [] k = "AcIn1ToAcOut_kWh" -> <<"huge", 0>>
                [] OTHER -> <<"num", 7000>>]] }

LoadInit ==
    /\ prog = "emu"
    /\ \E f \in Files : InitFrom(f)

\* The images and the failing reads of these runs: off grid under load and
\* charging from mains under load; no read failing, or the first.
LoadImages == {Image(3, 0, 0, 1000, 80, 0), Image(5, 2300, 1000, 1000, 80, 1)}

LoadTick ==
    /\ ticks < MaxTicks
    /\ EmuStep(LoadImages, {{}, {201}}, {0, ENERGY_SAVE_SEC - POLL_SEC}, Ios)

LoadNext == LoadTick \/ Restart

SpecLoad == LoadInit /\ [][LoadNext]_vars

\* The emulator started on a file it finds and reading any of the images:
\* grid power with and without mains, positive and negative.
GridTick ==
    /\ ticks < MaxTicks
    /\ EmuStep(Images, {{}, {201}}, {0}, {"ok"})

GridNext == GridTick \/ Restart

SpecGrid == LoadInit /\ [][GridNext]_vars

-----------------------------------------------------------------------------
(* Every working mode *)

\* One image for each working mode 0..6, mains present, under load.
ModeImages == {Image(wm, 2300, 1000, 1000, 80, 0) : wm \in 0 .. 6}

ModeBads == {{}, {201}}

ModeTick ==
    /\ ticks < MaxTicks
    /\ \/ EmuStep(ModeImages, ModeBads, {0}, {"ok"})
       \/ CelStep(ModeImages, ModeBads, {0})
       \/ MpStep(ModeImages, ModeBads, {0})
       \/ InvStep(ModeImages, ModeBads, {0})
       \/ BatStep(ModeImages, ModeBads, {0})
       \/ PvStep(ModeImages, ModeBads, {0})
       \/ SvcStep(ModeImages, ModeBads, {0})

SpecModes == Init /\ [][ModeTick]_vars

-----------------------------------------------------------------------------
(* Any raw working mode *)

\* Register 201 is an unsigned 16-bit word: the seven working modes and some
\* words that are none of them, up to the largest.
RawModes == (0 .. 6) \cup {7, 255, 65535}

RawImages == {Image(wm, 2300, 1000, 1000, 80, 0) : wm \in RawModes}

\* The ticks of the programs that publish /Mode and /State.
RawTick ==
    /\ ticks < MaxTicks
    /\ \/ EmuStep(RawImages, ModeBads, {0}, {"ok"})
       \/ CelStep(RawImages, ModeBads, {0})
       \/ MpStep(RawImages, ModeBads, {0})
       \/ InvStep(RawImages, ModeBads, {0})

SpecRaw == Init /\ [][RawTick]_vars

\* Words of register 201 that are no working mode, read without an error,
\* with the mains present and absent, loaded and idle.
UnknownModes == {7, 8, 255, 32768, 65535}

UnknownImages ==
    {Image(wm, in_v, in_p, 1000, 80, 0) :
        wm \in UnknownModes, in_v \in {0, 2300}, in_p \in {0, 1000}}

UnknownTick ==
    /\ ticks < MaxTicks
    /\ \/ EmuStep(UnknownImages, {{}}, {0}, {"ok"})
       \/ CelStep(UnknownImages, {{}}, {0})
       \/ MpStep(UnknownImages, {{}}, {0})
       \/ InvStep(UnknownImages, {{}}, {0})

SpecUnknown == Init /\ [][UnknownTick]_vars

\* Signed 16-bit words of the registers 202 and 204: the ends of the range,
\* zero and its neighbours, and the voltages on both sides of each guard.
RawVolts == {-32768, -1, 0, 1, 50, 51, 200, 201, 32767}
RawPowers == {-32768, 0, 1000}

VoltImages == {Image(2, in_v, in_p, 1000, 80, 0) : in_v \in RawVolts, in_p \in RawPowers}

\* The ticks of the programs that derive the input current.
VoltTick ==
    /\ ticks < MaxTicks
    /\ \/ EmuStep(VoltImages, {{}}, {0}, {"ok"})
       \/ CelStep(VoltImages, {{}}, {0})
       \/ MpStep(VoltImages, {{}}, {0})

SpecVolt == Init /\ [][VoltTick]_vars

-----------------------------------------------------------------------------
(* The scheduler *)

LiveBads == {{}, {201}, {229}}

\* A tick of any program, on time, on a file system that works.
LiveTick ==
    /\ ticks < MaxTicks
    /\ \/ EmuStep(LoadImages, LiveBads, {0}, {"ok"})
       \/ CelStep(LoadImages, LiveBads, {0})
       \/ MpStep(LoadImages, LiveBads, {0})
       \/ InvStep(LoadImages, LiveBads, {0})
       \/ BatStep(LoadImages, LiveBads, {0})
       \/ PvStep(LoadImages, LiveBads, {0})
       \/ SvcStep(LoadImages, LiveBads, {0})

LiveNext == LiveTick \/ Restart

\* The step of the scheduler that LiveTick refines: a tick of a process that
\* started and whose timer source or worker loop is still there.  LiveTick
\* asks this of the state and no more (its inputs are never empty), so the
\* two are enabled in the same states and every LiveTick step is one of these.
TimerFires ==
    /\ armed
    /\ outcome # "Crashed"
    /\ ticks < MaxTicks
    /\ ticks' = ticks + 1

\* GLib.MainLoop().run() dispatches a timer source for as long as it is
\* installed, and the worker thread goes round its loop for as long as it
\* lives: a tick that stays possible is run.
SpecLive == Init /\ [][LiveNext]_vars /\ WF_ticks(TimerFires)

-----------------------------------------------------------------------------
(* The state of charge, and a serial device that is not there *)

\* The reads that raise: none, or that of the state of charge and no other.
SocBads == {{}, {229}}

SocTick ==
    /\ ticks < MaxTicks
    /\ \/ EmuStep(LoadImages, SocBads, {0}, {"ok"})
       \/ CelStep(LoadImages, SocBads, {0})
       \/ MpStep(LoadImages, SocBads, {0})
       \/ InvStep(LoadImages, SocBads, {0})
       \/ BatStep(LoadImages, SocBads, {0})
       \/ PvStep(LoadImages, SocBads, {0})
       \/ SvcStep(LoadImages, SocBads, {0})

SocNext == SocTick \/ Restart

SpecSoc == Init /\ [][SocNext]_vars

\* The serial device cannot be opened, at the start or later: mk_instrument()
\* raises in every tick.
NoPortBads == {{SerialPort}}

NoPortTick ==
    /\ ticks < MaxTicks
    /\ \/ EmuStep(LoadImages, NoPortBads, Delays, {"ok"})
       \/ CelStep(LoadImages, NoPortBads, Delays)
       \/ MpStep(LoadImages, NoPortBads, Delays)
       \/ InvStep(LoadImages, NoPortBads, Delays)
       \/ BatStep(LoadImages, NoPortBads, Delays)
       \/ PvStep(LoadImages, NoPortBads, Delays)
       \/ SvcStep(LoadImages, NoPortBads, Delays)

NoPortNext == NoPortTick \/ Restart

SpecNoPort == Init /\ [][NoPortNext]_vars

-----------------------------------------------------------------------------
(* service.py, assignment by assignment *)

\* The paths in the order PvInverterDbusService.publish assigns them.
PvOrder ==
    <<"Connected", "Serial", "Ac_Power", "Ac_L1_Power", "Ac_L1_Voltage",
      "Ac_L1_Current", "Ac_L1_Frequency", "Status_Mode", "Status_FaultCode",
      "Status_WarningCode", "UpdateIndex">>

\* The paths in the order BatteryDbusService.publish assigns them.
BatOrder ==
    <<"Connected", "Serial", "Dc_0_Voltage", "Dc_0_Current", "Dc_0_Power", "Soc",
      "Temperature", "Status_Mode", "Status_FaultCode", "Status_WarningCode",
      "UpdateIndex">>

\* The assignments s[path] = value of one publish, in order.
Assignments(n, order, w) ==
    [i \in 1 .. Len(order) |-> [n |-> n, k |-> order[i], v |-> w[order[i]]]]

\* The try block of _loop up to the first assignment: collect_snapshot()
\* returns or raises, and the worker has the assignments of the two publish
\* calls, or of the except branch, before it.  The services are objects the
\* main-loop thread serves to the bus at any moment: each state between two
\* assignments is one a consumer can read.
SvcCollect(imgs, bads) ==
    /\ prog = "service"
    /\ armed
    /\ pending = <<>>
    /\ \E bad \in bads :
         LET failed == SvcRequired \cap bad # {}
         IN  \E img \in ImagesFor(imgs, failed) :
                LET mode == ModeGet(r16(img, 201), ToString(r16(img, 201)))
                    pv == PvAssigned(img, mode, Bump(idx["pvinverter"]))
                    bat == BatAssigned(img, mode, Bump(idx["battery"]))
                IN  /\ pending' =
                          IF failed
                          THEN <<[n |-> "pvinverter", k |-> "Connected", v |-> 0],
                                 [n |-> "battery", k |-> "Connected", v |-> 0]>>
                          ELSE Assignments("pvinverter", PvOrder, pv)
                                 \o Assignments("battery", BatOrder, bat)
                    /\ seen' = Seen(img, failed)
                    /\ heard' = Heard(img, failed)
    /\ written' = [n \in DOMAIN written |-> {}]
    /\ outcome' = "Polling"
    /\ NoEnergy
    /\ UNCHANGED <<prog, svc, idx, now, started, ticks, armed, boots>>

\* One assignment s[path] = value by the worker thread; after the last one,
\* the sleeps of the iteration.
SvcAssign ==
    /\ prog = "service"
    /\ pending # <<>>
    /\ LET a == Head(pending)
           last == Len(pending) = 1
           failed == a.k = "Connected" /\ a.v = 0
       IN  /\ svc' = [svc EXCEPT ![a.n] = Assign(@, [k \in {a.k} |-> a.v])]
           /\ idx' = IF a.k = "UpdateIndex" THEN [idx EXCEPT ![a.n] = a.v] ELSE idx
           /\ written' = [written EXCEPT ![a.n] = @ \cup {a.k}]
           /\ pending' = Tail(pending)
           /\ outcome' = IF ~last THEN outcome
                         ELSE IF failed THEN "Failed" ELSE "Published"
           /\ ticks' = IF last THEN ticks + 1 ELSE ticks
           /\ now' = IF last THEN now + SvcSleep(IF failed THEN SvcRequired ELSE {})
                     ELSE now
    /\ armed' = TRUE
    /\ NoEnergy
    /\ UNCHANGED <<prog, started, seen, heard, boots>>

TornInit == Init /\ prog = "service"

TornNext ==
    \/ ticks < MaxTicks /\ SvcCollect(LoadImages, ModeBads)
    \/ SvcAssign

\* service.py with its worker thread taken one assignment at a time.
SpecTorn == TornInit /\ [][TornNext]_vars

-----------------------------------------------------------------------------
(* Serial numbers *)

\* Words a serial-number register may hold: NUL NUL; "A" NUL; NUL "A"; the
\* two bytes of U+00E9; 0xFF, which no decoder takes, and "A"; "A" and a
\* lead byte, which the next word completes or not; a continuation byte
\* and "A".
SerialAlphabet == {0, 16640, 65, 50089, 65345, 16835, 43329}

\* The last word: NUL NUL, which leaves the end of the text to the words
\* before; "A" NUL; 0xFF and "A".
LastWords == {0, 16640, 65345}

\* Images that read "SN0", NUL bytes, then words of the alphabet on either
\* side of the boundary of the two block reads and in the last register.
AsciiImages ==
    {[Image(3, 0, 0, 1000, 80, 0) EXCEPT ![SerialBase + 5] = a,
                                          ![SerialBase + 6] = b,
                                          ![SerialBase + SerialWords - 1] = c] :
        a \in SerialAlphabet, b \in SerialAlphabet, c \in LastWords}

\* The ticks of the programs that publish the serial number they read, no
\* read failing (multiplus.py reads it and publishes "").
AsciiTick ==
    /\ ticks < MaxTicks
    /\ \/ InvStep(AsciiImages, {{}}, {0})
       \/ BatStep(AsciiImages, {{}}, {0})
       \/ PvStep(AsciiImages, {{}}, {0})
       \/ SvcStep(AsciiImages, {{}}, {0})

SpecAscii == Init /\ [][AsciiTick]_vars

-----------------------------------------------------------------------------
(* Properties of the energy file *)

\* C11: two writes of the energy file by one process are at least
\* ENERGY_SAVE_SEC apart, however fast the ticks come.
C11_WritesApart ==
    \A i \in 1 .. Len(writes) : \A j \in 1 .. Len(writes) :
        i < j => writes[j] - writes[i] >= ENERGY_SAVE_SEC

\* The process wrote twice, the second time as soon as the throttle let it.
C11_Witness ==
    /\ Len(writes) = 2
    /\ writes[2] - writes[1] = ENERGY_SAVE_SEC
    /\ saved = "written"

\* C12: right after a write that succeeded the file holds the counters as
\* they are in memory, the tick's own contribution included.
C12_SaveIsCurrent ==
    saved = "written" =>
        /\ file.state = "json"
        /\ DOMAIN file.data = EnergyKeys
        /\ \A k \in EnergyKeys : file.data[k] = <<"num", energy[k]>>

\* The second tick wrote, with the energy of both ticks in the file.
C12_Witness ==
    /\ saved = "written"
    /\ ticks = 2
    /\ boots = 0
    /\ energy.InverterToAcOut_kWh = 2 * 1000 * POLL_SEC
    /\ file.data["InverterToAcOut_kWh"] = <<"num", 2 * 1000 * POLL_SEC>>

\* C13: a published tick leaves the counters the accumulation gives, advances
\* the update counter and shows /Connected = 1 whether its save was skipped,
\* succeeded or failed.
C13_SaveLeavesTickAlone ==
    [][(prog = "emu" /\ TickEnds("Published")) =>
          LET s == svc'["vebus"]
          IN  /\ energy' = Accumulate(energy, s.Ac_ActiveIn_Connected = 1,
                                      s.Ac_ActiveIn_L1_P[1], s.Ac_Out_L1_P[1])
              /\ idx'["vebus"] = Bump(idx["vebus"])
              /\ s.UpdateIndex = idx'["vebus"]
              /\ s.Connected = 1
              /\ s.Energy_InverterToAcOut = energy'.InverterToAcOut_kWh]_vars

\* A tick published and counted energy though its write of the file failed.
C13_Witness ==
    /\ prog = "emu"
    /\ outcome = "Published"
    /\ saved = "failed"
    /\ ticks = 2
    /\ idx["vebus"] = 2
    /\ energy.InverterToAcOut_kWh > 0

\* C14: a process started right after a write that succeeded starts from
\* exactly the counters that were written.
C14_RoundTrip ==
    [][(boots' # boots /\ saved = "written") =>
          /\ energy' = energy
          /\ outcome' = "Idle"]_vars

\* A process started from the file the one before it had just written, with
\* three counters that differ from zero.
C14_Witness ==
    /\ boots = 1
    /\ outcome = "Idle"
    /\ file.state = "json"
    /\ energy.AcIn1ToInverter_kWh > 0
    /\ energy.InverterToAcOut_kWh > energy.AcIn1ToInverter_kWh
    /\ \A k \in EnergyKeys : file.data[k] = <<"num", energy[k]>>

\* C15: main() never ends in _load_energy, and a start on a file that is
\* missing, is not JSON or is no JSON object leaves all counters zero, the
\* second such start like the first.
C15_LoadNeverFails ==
    /\ outcome # "Crashed"
    /\ (outcome = "Idle" /\ file.state \in {"missing", "malformed", "other"}) =>
          /\ energy = ZeroEnergy
          /\ svc["vebus"].Energy_InverterToAcOut = 0
          /\ svc["vebus"].Energy_AcIn1ToInverter = 0

\* The second start of a process on a missing file.
C15_Witness ==
    /\ boots = 1
    /\ outcome = "Idle"
    /\ file.state = "missing"
    /\ energy = ZeroEnergy

\* C16: no energy counter is negative, in any state, whatever the file the
\* loader accepted.
C16_NonNegative ==
    \A k \in EnergyKeys : energy[k] >= 0

-----------------------------------------------------------------------------
(* Properties of the translators *)

\* The working mode the latest tick published from.
Wm == seen[1]

\* C17: the inverter program publishes Mode 1 for the working modes 2, 3, 4,
\* 5 and 4 for 0, 1, 6, and State 9 for 2, 3, 4, 5 and 1 for 0, 1, 6.
C17_InverterTable ==
    (prog = "inverter" /\ outcome = "Published") =>
        /\ Wm \in 0 .. 6
        /\ svc["inverter"].Mode = (IF Wm \in {2, 3, 4, 5} THEN 1 ELSE 4)
        /\ svc["inverter"].State = (IF Wm \in {2, 3, 4, 5} THEN 9 ELSE 1)
        /\ svc["inverter"].Mode = venus_mode_from_wm(Wm)
        /\ svc["inverter"].State = venus_state_from_wm(Wm)

\* The inverter program published Off and Standby for the mode Fault after it
\* had published On and Inverting for Charging.
C17_Witness ==
    /\ prog = "inverter"
    /\ outcome = "Published"
    /\ seen = Some(6)
    /\ svc["inverter"].Mode = 4
    /\ svc["inverter"].State = 1
    /\ ticks = 2
    /\ idx["inverter"] = 2

\* C18: each VE.Bus program publishes Mode 1 for the working mode 5, 3 for
\* 2, 3 and 4, and 4 for the others.
C18_VebusModeTable ==
    (prog \in {"emu", "celmaibun", "multiplus"} /\ outcome = "Published") =>
        svc["vebus"].Mode = (IF Wm = 5 THEN 1 ELSE IF Wm \in {2, 3, 4} THEN 3 ELSE 4)

\* C19: each VE.Bus program publishes State 3 for the working mode 5, 9 for
\* 3, 3 for 2 and 4, and 1 for the others.
C19_VebusStateTable ==
    (prog \in {"emu", "celmaibun", "multiplus"} /\ outcome = "Published") =>
        svc["vebus"].State =
            (IF Wm = 5 THEN 3 ELSE IF Wm = 3 THEN 9 ELSE IF Wm \in {2, 4} THEN 3 ELSE 1)

\* C20: a tick published from the working mode 5 shows State 3, with Mode 1
\* (On) in the inverter program and Mode 1 (ChargerOnly) in the VE.Bus ones.
C20_ChargingScenario ==
    (prog \in {"inverter", "emu", "celmaibun", "multiplus"}
        /\ outcome = "Published" /\ seen = Some(5)) =>
        LET s == svc[IF prog = "inverter" THEN "inverter" ELSE "vebus"]
        IN  s.State = 3 /\ s.Mode = 1

\* C21: a tick published from the working mode 6 (Fault) shows State 1 and
\* Mode 4 (Off) in inverter.py, multiplus.py, dbus-multiplus-emulator.py and
\* celmaibun.py.
C21_FaultScenario ==
    (prog \in {"inverter", "multiplus", "emu", "celmaibun"}
        /\ outcome = "Published" /\ seen = Some(6)) =>
        LET s == svc[IF prog = "inverter" THEN "inverter" ELSE "vebus"]
        IN  s.State = 1 /\ s.Mode = 4

\* multiplus.py published Off and Low Power for the mode Fault, after a tick
\* that had published.
C21_Witness ==
    /\ prog = "multiplus"
    /\ outcome = "Published"
    /\ seen = Some(6)
    /\ svc["vebus"].Mode = 4
    /\ svc["vebus"].State = 1
    /\ idx["vebus"] = 2

\* The (Mode, State) each program's tables give for a working mode.
StatusPair(p, wm) ==
    IF p = "inverter"
    THEN <<IF wm \in {2, 3, 4, 5} THEN 1 ELSE 4, IF wm \in {2, 3, 4, 5} THEN 9 ELSE 1>>
    ELSE IF p = "multiplus"
    THEN <<IF wm = 5 THEN 1 ELSE IF wm \in {2, 3, 4} THEN 3 ELSE 4,
           IF wm \in {2, 3, 4, 5} THEN 9 ELSE 1>>
    ELSE <<IF wm = 3 THEN 3 ELSE IF wm \in {2, 4, 5} THEN 1 ELSE 4,
           IF wm = 3 THEN 9 ELSE IF wm \in {2, 4, 5} THEN 3 ELSE 1>>

\* C22: the Mode and State a tick publishes are a function of the program and
\* of the working mode that tick read, whatever the ticks before it read,
\* published or failed on.
C22_Stateless ==
    (prog \in {"inverter", "multiplus", "emu", "celmaibun"} /\ outcome = "Published") =>
        LET s == svc[IF prog = "inverter" THEN "inverter" ELSE "vebus"]
        IN  <<s.Mode, s.State>> = StatusPair(prog, Wm)

\* inverter.py published Off and Standby from the working mode Standby in its
\* second published tick: among the ticks before it are those that published
\* On and Inverting.
C22_Witness ==
    /\ prog = "inverter"
    /\ outcome = "Published"
    /\ seen = Some(1)
    /\ idx["inverter"] = 2
    /\ svc["inverter"].Mode = 4
    /\ svc["inverter"].State = 1

\* C23: in every state, before the first published tick and for any word in
\* register 201, /Mode of inverter.py is 1 or 4 and its /State 1 or 9, and
\* /Mode of the VE.Bus programs is 1, 3 or 4 and their /State 1, 3 or 9.
C23_StatusRange ==
    /\ prog = "inverter" =>
        svc["inverter"].Mode \in {1, 4} /\ svc["inverter"].State \in {1, 9}
    /\ prog \in {"multiplus", "emu", "celmaibun"} =>
        svc["vebus"].Mode \in {1, 3, 4} /\ svc["vebus"].State \in {1, 3, 9}

\* The emulator published from the largest word, which is no working mode.
C23_Witness ==
    /\ prog = "emu"
    /\ outcome = "Published"
    /\ seen = Some(65535)
    /\ svc["vebus"].Mode = 4
    /\ svc["vebus"].State = 1

\* C24: after a tick, published or failed, the scheduler is still armed
\* and, while the run has ticks left, another tick is eventually run.
C24_SchedulerGoesOn ==
    /\ [](outcome \in {"Published", "Failed"} => armed)
    /\ \A k \in 1 .. MaxTicks - 1 :
          (ticks = k /\ outcome \in {"Published", "Failed"}) ~> (ticks = k + 1)

\* service.py went round its loop again after an iteration that had failed,
\* and published.
C24_Witness ==
    /\ prog = "service"
    /\ ticks = 2
    /\ outcome = "Published"
    /\ idx["pvinverter"] = 1
    /\ idx["battery"] = 1
    /\ svc["battery"].Connected = 1
    /\ armed

\* C25: with every tick on time, the scheduler puts the poll interval, and
\* nothing else, between one tick and the next, after a failed tick as after
\* a published one.
C25_FixedInterval ==
    [][ticks' # ticks => now' - now = POLL_SEC]_vars

\* C26: when the read of the state of charge raises and no other does, the
\* tick of every program that reads it ends published: connected, and the
\* update counter advanced.
C26_SocOptional ==
    (prog \in {"emu", "celmaibun", "multiplus", "battery", "service"} /\ ticks > 0
        /\ outcome # "Idle") =>
        /\ outcome = "Published"
        /\ \A n \in DOMAIN svc : svc[n].Connected = 1 /\ svc[n].UpdateIndex = idx[n]

\* C27: with a serial device that cannot be opened, no tick is run as a
\* tick that fails: the process has ended at its start.
C27_StartupFailureIsFatal ==
    ticks > 0 => outcome = "Crashed"

\* C28: in a poll of service.py every transaction after the first, the
\* block reads of the serial number among them, comes the inter-frame delay
\* or more after the one before it.
C28_InterFrameDelay ==
    (prog = "service" /\ outcome = "Published") =>
        \A i \in 2 .. Len(SvcFrames) : SvcFrames[i].pause >= INTER_FRAME_MS

\* What a service of service.py shows when all its values are those of one
\* tick: one snapshot published whole, connected or, after a later failure,
\* not.
OneSnapshot(n) ==
    \E img \in LoadImages, i \in 1 .. MaxTicks, c \in {0, 1} :
        LET mode == ModeGet(r16(img, 201), ToString(r16(img, 201)))
            w == IF n = "pvinverter" THEN PvAssigned(img, mode, i)
                 ELSE BatAssigned(img, mode, i)
        IN  svc[n] = [Assign(FirstPaths("service", n, ZeroEnergy), w)
                         EXCEPT !.Connected = c]

\* C29: at every point of the interleaving of the worker thread with the
\* main loop, each service of service.py that has been published to shows
\* values that are all of one tick.
C29_NoTornState ==
    prog = "service" => \A n \in DOMAIN svc : idx[n] >= 1 => OneSnapshot(n)

\* C30: when the emulator stops, the energy file it leaves holds the
\* counters it had in memory at that moment.
C30_FinalSave ==
    [][(prog = "emu" /\ boots' # boots) =>
          file'.state = "json" /\ file'.data = json_dump(energy)]_vars

\* The byte of the serial number at position k, 1 .. 24, taken from the
\* registers in their order: high byte, then low byte.
SerialByte(k) ==
    IF k % 2 = 1 THEN heard[(k + 1) \div 2] \div 256 ELSE heard[k \div 2] % 256

\* The position of the last byte that is not NUL, 0 when all are.
LastByte ==
    LET nz == {k \in 1 .. 2 * SerialWords : SerialByte(k) # 0}
    IN  IF nz = {} THEN 0 ELSE CHOOSE k \in nz : \A j \in nz : j <= k

\* The characters below 128 of a text or of a byte string, NUL among them.
Plain(t) == SelectSeq(t, LAMBDA x : x < 128)

\* C31: a published serial number is the bytes of the registers in their
\* order, high byte before low byte, up to the last byte that is not NUL:
\* every byte below 128 of these is in the text in its place, the NUL bytes
\* before the last one included, the bytes that decode to nothing are left
\* out, and the tick is published whatever the bytes are.
C31_ReadAscii ==
    (prog \in {"inverter", "battery", "pv", "service"} /\ ticks > 0) =>
        /\ outcome = "Published"
        /\ \A n \in DOMAIN svc :
              /\ Plain(svc[n].Serial) = Plain([k \in 1 .. LastByte |-> SerialByte(k)])
              /\ svc[n].Serial =
                    DecodeIgnore([k \in 1 .. LastByte |-> SerialByte(k)])
              /\ \A j \in 1 .. Len(svc[n].Serial) : svc[n].Serial[j] # 255

\* inverter.py published "SN0", seven NUL bytes, "A" from the low byte of
\* the sixth word, U+00E9 from the seventh, NUL bytes and a last "A": the
\* byte 0xFF before it is left out.
C31_Witness ==
    /\ prog = "inverter"
    /\ outcome = "Published"
    /\ heard[6] = 65 /\ heard[7] = 50089 /\ heard[12] = 65345
    /\ svc["inverter"].Serial =
          <<83, 78, 48, 0, 0, 0, 0, 0, 0, 0, 0, 65, 233, 0, 0, 0, 0, 0, 0, 0, 0, 65>>

C33_SinkShowsCounters ==
    prog = "emu" =>
        /\ svc[EmuService].Energy_AcIn1ToInverter = energy.AcIn1ToInverter_kWh
        /\ svc[EmuService].Energy_AcIn1ToAcOut = energy.AcIn1ToAcOut_kWh
        /\ svc[EmuService].Energy_InverterToAcOut = energy.InverterToAcOut_kWh
        /\ svc[EmuService].Energy_OutToInverter = 0

\* The emulator, started on the counters of an earlier run, failed its first
\* tick: the paths still show what the load gave.
C33_Witness ==
    /\ prog = "emu"
    /\ outcome = "Failed"
    /\ ticks = 1
    /\ energy.InverterToAcOut_kWh = 7000
    /\ svc[EmuService].Energy_InverterToAcOut = 7000
    /\ svc[EmuService].Energy_AcIn1ToInverter = 5000

\* C34: at the end of a published tick of the emulator whose write, if it
\* tried one, did not fail, the file holds the counters in memory or this
\* process wrote the file less than ENERGY_SAVE_SEC seconds ago; the first
\* published tick of a process writes.
C34_BoundedLag ==
    (prog = "emu" /\ outcome = "Published" /\ saved # "failed") =>
        /\ \/ file.state = "json" /\ file.data = json_dump(energy)
           \/ /\ writes # <<>>
              /\ now - writes[Len(writes)] < ENERGY_SAVE_SEC
        /\ idx[EmuService] = 1 => saved = "written"

\* A published tick left the file behind the counters, two seconds after the
\* write of the tick before.
C34_Witness ==
    /\ prog = "emu"
    /\ outcome = "Published"
    /\ saved = "skipped"
    /\ idx[EmuService] = 2
    /\ file.state = "json"
    /\ file.data # json_dump(energy)
    /\ Len(writes) = 1
    /\ now - writes[1] = POLL_SEC

\* C35: after a write of the energy file that fails, a load gives the
\* counters it gave before the write: those of the last write that had
\* succeeded.
C35_FailedSaveKeepsFile ==
    [][(prog = "emu" /\ saved' = "failed" /\ ticks' # ticks) =>
          load_energy(ZeroEnergy, file').energy = load_energy(ZeroEnergy, file).energy]_vars

\* C36: at the end of every iteration of the loop of service.py the PV
\* service and the battery service have the same update counter and the
\* same /Connected, and show the serial number, the mode and the codes of
\* the same snapshot.
C36_BothOrNeither ==
    prog = "service" =>
        LET pv == svc["pvinverter"]
            bat == svc["battery"]
        IN  /\ idx["pvinverter"] = idx["battery"]
            /\ pv.UpdateIndex = bat.UpdateIndex
            /\ pv.UpdateIndex = idx["pvinverter"]
            /\ pv.Connected = bat.Connected
            /\ pv.Serial = bat.Serial
            /\ pv.Status_Mode = bat.Status_Mode
            /\ pv.Status_WarningCode = bat.Status_WarningCode
            /\ written["pvinverter"] = {} <=> written["battery"] = {}

\* service.py published a snapshot to both services, then failed an
\* iteration: both are disconnected and both counters are 1.
C36_Witness ==
    /\ prog = "service"
    /\ ticks = 2
    /\ outcome = "Failed"
    /\ idx["pvinverter"] = 1
    /\ idx["battery"] = 1
    /\ svc["pvinverter"].Connected = 0
    /\ svc["battery"].Connected = 0
    /\ svc["battery"].Status_Mode = "Charging"

\* C37: a tick of inverter.py, multiplus.py, the emulator or celmaibun.py
\* whose reads all succeed and whose working-mode word is outside 0..6 is
\* Published, with Mode 4 and State 1.
C37_UnknownMode ==
    (prog \in {"inverter", "multiplus", "emu", "celmaibun"} /\ ticks > 0) =>
        LET s == svc[IF prog = "inverter" THEN "inverter" ELSE "vebus"]
        IN  /\ outcome = "Published"
            /\ seen # None
            /\ seen[1] \notin 0 .. 6
            /\ s.Mode = 4
            /\ s.State = 1
            /\ s.Connected = 1

\* celmaibun.py published Off and Low Power from the word 32768.
C37_Witness ==
    /\ prog = "celmaibun"
    /\ outcome = "Published"
    /\ seen = Some(32768)
    /\ svc["vebus"].Mode = 4
    /\ svc["vebus"].State = 1
    /\ idx["vebus"] = 1

\* The guard of the derivation of each program, on the raw voltage.
GuardMet(p, v) ==
    IF p = "multiplus" THEN v # 0
    ELSE IF p = "emu" THEN v > 50
    ELSE v > 200

\* C38: a tick of multiplus.py, the emulator or celmaibun.py whose reads
\* all succeed is Published whatever signed 16-bit voltage and power it
\* read: the input current is the published power over a voltage that is
\* not 0 when the guard of the program is met, and 0 when it is not.
C38_NoDivisionByZero ==
    (prog \in {"multiplus", "emu", "celmaibun"} /\ ticks > 0) =>
        LET s == svc["vebus"]
            v == s.Ac_ActiveIn_L1_V[1]
        IN  /\ outcome = "Published"
            /\ s.Ac_ActiveIn_L1_I[2] # 0
            /\ GuardMet(prog, v) => s.Ac_ActiveIn_L1_I = Ratio(s.Ac_ActiveIn_L1_P[1], v)
            /\ ~GuardMet(prog, v) => s.Ac_ActiveIn_L1_I = Ratio(0, 1)

\* multiplus.py read 0 V with the most negative power and published the
\* current 0.
C38_Witness ==
    /\ prog = "multiplus"
    /\ outcome = "Published"
    /\ svc["vebus"].Ac_ActiveIn_L1_V = Some(0)
    /\ svc["vebus"].Ac_ActiveIn_L1_P = Some(-32768)
    /\ svc["vebus"].Ac_ActiveIn_L1_I = Ratio(0, 1)

====
